---- MODULE Spec2Model ----
(***************************************************************************)
(* GATT client procedure engine of the NimBLE host (ble_gattc.c).          *)
(*                                                                         *)
(* The model is at pointer level: procedure records are blocks 1..MAX_PROCS*)
(* of ble_gattc_proc_pool, every list (ble_gattc_procs, temp_proc_list and *)
(* the local destination list of ble_gattc_extract) is a BSD STAILQ head   *)
(* (first, last) threaded through the single `next' field of the records.  *)
(* C functions are operators from machine state to machine state.  A run   *)
(* is one entry point executed to completion on the current variables; its *)
(* result holds the new variables and, in `trace', the events of the run   *)
(* (lock, unlock, callbacks, transmissions, frees).  An action commits a   *)
(* run; a property of what happens inside an operation is a property of    *)
(* every run that can start in a reachable state.                          *)
(*                                                                         *)
(* Build configuration: BLE_HS_DEBUG off (assertions compile to nothing),  *)
(* BLE_GATT_CACHING off, no EATT channels.  BLE_GATTC_AUTO_PAIR is off     *)
(* except in SpecAP.                                                       *)
(* Spec: exchange-MTU and discover-all-services procedures, preemption     *)
(* protection off.  SpecWL: write-long procedures.  SpecST: find-included- *)
(* services and read-long procedures.  SpecWR: long and reliable writes.   *)
(* SpecDC: discover-all-characteristics and discover-all-descriptors       *)
(* procedures.                                                             *)
(* SpecPP: discover-all-services procedures, BLE_GATTC_PROC_               *)
(* PREEMPTION_PROTECT on, the initiator interleaved with the engine.       *)
(* SpecAP: BLE_GATTC_AUTO_PAIR on: error responses that park a procedure   *)
(* while the link is secured, and the replay after encryption changed.     *)
(***************************************************************************)
EXTENDS Integers, Sequences, FiniteSets, TLC

(***************************************************************************)
(* Bounds of the model.                                                    *)
(***************************************************************************)
\* MYNEWT_VAL(BLE_GATT_MAX_PROCS): capacity of ble_gattc_proc_pool.
MAX_PROCS == 2
\* Connection handles 1..NumConns.
NumConns == 2
\* Width of ble_npl_time_t and of the int32_t differences, scaled down.
TickBits == 3
\* ble_npl_time_ms_to_ticks32(BLE_GATTC_UNRESPONSIVE_TIMEOUT_MS), scaled down.
TimeoutTicks == 2
\* ble_npl_time_ms_to_ticks32(MYNEWT_VAL(BLE_GATT_RESUME_RATE)), scaled down.
ResumeTicks == 1
\* The host timer runs at most MaxLate ticks after the time it was armed for.
MaxLate == 1
\* The clock is followed for MaxTicks ticks; it starts two ticks before the
\* tick counter wraps.
MaxTicks == 3
\* Attribute handles 1..MaxHandle; MaxHandle stands for 0xffff.
MaxHandle == 2
\* Length of a write-long payload (OS_MBUF_PKTLEN of the attribute mbuf).
MaxPayload == 2
\* Bytes one Prepare Write carries: MTU - BLE_ATT_PREP_WRITE_CMD_BASE_SZ.
ChunkMax == 1
\* Attribute handles 1..MaxAttr of the included-service scan; MaxAttr
\* stands for 0xffff.
MaxAttr == 2
\* Width of the uint16_t read_long.offset, scaled down.
OffBits == 2
\* Bytes one Read or Read Blob response carries at most: MTU - 1.
ReadMax == 1
\* Attributes of one reliable write, at most BLE_GATT_WRITE_MAX_ATTRS.
MaxWrites == 2
\* The MTU values 1..MaxMtu an Exchange MTU response carries.
MaxMtu == 2

(***************************************************************************)
(* Program constants.                                                      *)
(***************************************************************************)
NULL == 0
BLE_GATT_OP_MTU == 0
BLE_GATT_OP_DISC_ALL_SVCS == 1
BLE_GATT_OP_FIND_INC_SVCS == 3
BLE_GATT_OP_DISC_ALL_CHRS == 4
BLE_GATT_OP_DISC_CHR_UUID == 5
BLE_GATT_OP_DISC_ALL_DSCS == 6
BLE_GATT_OP_READ == 7
BLE_GATT_OP_READ_UUID == 8
BLE_GATT_OP_READ_LONG == 9
BLE_GATT_OP_WRITE_LONG == 13
BLE_GATT_OP_WRITE_RELIABLE == 14
BLE_GATT_OP_NONE == 255
BLE_L2CAP_CID_ATT == 4

Procs == 1..MAX_PROCS
Ptr == 0..MAX_PROCS
Conns == 1..NumConns
TickMod == 2 ^ TickBits
BLE_HS_FOREVER == (2 ^ (TickBits - 1)) - 1
StartTick == TickMod - 2
ListNames == {"procs", "temp", "dst", "cached"}
TxRcs == {"OK", "ENOMEM", "ENOTCONN"}
AttErrs == {"ATTR_NOT_FOUND", "INVALID_HANDLE"}

\* BLE_HS_ERR_ATT_BASE + status.
BLE_HS_ERR_ATT(status) == "ATT_" \o status

\* uint32_t addition of ticks.
TickAdd(a, b) == (a + b) % TickMod

\* (int32_t)(a - b): the difference of two tick values read as signed.
TickDiff(a, b) ==
    LET d == (a - b + TickMod) % TickMod
    IN IF d >= TickMod \div 2 THEN d - TickMod ELSE d

min(a, b) == IF a < b THEN a ELSE b

\* A block after memset(proc, 0, sizeof *proc).
ZeroProc ==
    [next |-> NULL, exp_os_ticks |-> 0, conn_handle |-> 0, cid |-> 0,
     op |-> 0, flags |-> 0, prev_handle |-> 0, handle |-> 0, offset |-> 0,
     length |-> 0, om_len |-> 0, end_handle |-> 0, cur_start |-> 0,
     cur_end |-> 0, num_attrs |-> 0, cur_attr |-> 0, attrs |-> <<>>,
     error |-> [status |-> "0", att_handle |-> 0]]

BLE_GATTC_PROC_F_STALLED == 1

EmptyList == [first |-> NULL, last |-> 0]

(***************************************************************************)
(* Machine state and events.                                               *)
(***************************************************************************)
\* Execution stops at the first fault: every primitive is a no-op after it.
Ev(S, e) == IF S.fault # "none" THEN S ELSE [S EXCEPT !.trace = Append(@, e)]

Fault(S, f) == IF S.fault = "none" THEN [S EXCEPT !.fault = f] ELSE S

ble_hs_lock(S) == Ev(S, <<"lock">>)

ble_hs_unlock(S) == Ev(S, <<"unlock">>)

(***************************************************************************)
(* BSD queue.h singly-linked tail queues.  A `last' of 0 is the address of *)
(* the head's own first pointer, a `last' of p is &proc[p].next.           *)
(***************************************************************************)
StoreLink(S, l, ref, v) ==
    IF ref = 0 THEN [S EXCEPT !.lst[l].first = v]
    ELSE [S EXCEPT !.proc[ref].next = v]

STAILQ_INIT(S, l) ==
    IF S.fault # "none" THEN S ELSE [S EXCEPT !.lst[l] = EmptyList]

STAILQ_INSERT_TAIL(S, l, elm) ==
    IF S.fault # "none" THEN S
    ELSE LET s1 == [S EXCEPT !.proc[elm].next = NULL]
             s2 == StoreLink(s1, l, s1.lst[l].last, elm)
         IN [s2 EXCEPT !.lst[l].last = elm]

STAILQ_REMOVE_HEAD(S, l) ==
    LET f == S.lst[l].first
    IN IF S.fault # "none" THEN S
       ELSE IF f = NULL THEN Fault(S, "null_deref")
       ELSE LET n == S.proc[f].next
            IN [S EXCEPT !.lst[l].first = n,
                         !.lst[l].last = IF n = NULL THEN 0 ELSE @]

STAILQ_REMOVE_AFTER(S, l, elm) ==
    LET e1 == S.proc[elm].next
    IN IF S.fault # "none" THEN S
       ELSE IF e1 = NULL THEN Fault(S, "null_deref")
       ELSE LET n == S.proc[e1].next
            IN [S EXCEPT !.proc[elm].next = n,
                         !.lst[l].last = IF n = NULL THEN elm ELSE @]

\* The records a walk from pointer p visits, in order, each once; a walk
\* that comes back to a visited record stops there.
RECURSIVE Walk(_, _, _)
Walk(pr, p, seen) ==
    IF p = NULL \/ p \in seen THEN <<>>
    ELSE <<p>> \o Walk(pr, pr[p].next, seen \cup {p})

\* Whether a walk from p runs into a record a second time.
RECURSIVE Cyclic(_, _, _)
Cyclic(pr, p, seen) ==
    IF p = NULL THEN FALSE
    ELSE IF p \in seen THEN TRUE
    ELSE Cyclic(pr, pr[p].next, seen \cup {p})

Range(s) == {s[i] : i \in 1..Len(s)}

ListSeq(S, l) == Walk(S.proc, S.lst[l].first, {})

ListSet(S, l) == Range(ListSeq(S, l))

\* while (STAILQ_NEXT(curelm) != elm) curelm = STAILQ_NEXT(curelm);
\* 0 when the walk dereferences NULL or never ends.
RECURSIVE FindPrev(_, _, _, _)
FindPrev(pr, cur, elm, fuel) ==
    IF cur = NULL \/ fuel = 0 THEN NULL
    ELSE IF pr[cur].next = elm THEN cur
    ELSE FindPrev(pr, pr[cur].next, elm, fuel - 1)

STAILQ_REMOVE(S, l, elm) ==
    IF S.lst[l].first = elm THEN STAILQ_REMOVE_HEAD(S, l)
    ELSE LET cur == FindPrev(S.proc, S.lst[l].first, elm, MAX_PROCS + 1)
         IN IF cur = NULL THEN Fault(S, "null_deref")
            ELSE STAILQ_REMOVE_AFTER(S, l, cur)

(***************************************************************************)
(* $proc: pool, insertion, timers, status processing.                      *)
(***************************************************************************)
Stalled(rec) == rec.flags = BLE_GATTC_PROC_F_STALLED

InTable(S, p) == p \in ListSet(S, "procs")

\* A store to a field of a record; the event notes whether the record was
\* in ble_gattc_procs when it was written.
SetField(S, p, f, v) ==
    IF S.fault # "none" THEN S
    ELSE Ev([S EXCEPT !.proc[p][f] = v], <<"wr", p, f, InTable(S, p)>>)

\* The free list of ble_gattc_proc_pool: S.pool is its head, and the link
\* of a free block lies over the first word of the block, the `next' field.
FreeList(S) == Walk(S.proc, S.pool, {})

\* os_memblock_get + memset 0.  rv is the block, or NULL.
ble_gattc_proc_alloc(S) ==
    IF S.fault # "none" THEN S
    ELSE IF S.pool = NULL THEN [S EXCEPT !.rv = NULL]
    ELSE LET p == S.pool
         IN [S EXCEPT !.pool = S.proc[p].next, !.proc[p] = ZeroProc,
                      !.cb[p] = 0, !.rv = p]

\* The Channel Selector's pick(conn, op): the CID of a free EATT channel if
\* there is one, else the fixed ATT CID.  No EATT channel is configured.
ble_eatt_get_available_chan_cid(conn_handle, op) == BLE_L2CAP_CID_ATT

ble_gattc_proc_prepare(S, p, conn_handle, op) ==
    IF S.fault # "none" THEN S
    ELSE [S EXCEPT !.proc[p].conn_handle = conn_handle, !.proc[p].op = op,
                   !.proc[p].cid =
                       ble_eatt_get_available_chan_cid(conn_handle, op)]

\* Value of the initiator's local `proc' after the engine freed the block.
Freed == 0 - 1

\* os_memblock_put.  The contents of a free block other than the link are
\* never read again before the next memset, so they are kept zero.
\* Freeing a block that a list still links leaves a dangling pointer in
\* that list: execution stops there.
ble_gattc_proc_free(S, p) ==
    IF S.fault # "none" \/ p = NULL THEN S
    ELSE IF p \in Range(FreeList(S)) THEN Fault(S, "double_free")
    ELSE LET s1 == Ev(S, <<"free", p, p \in S.live, S.cb[p]>>)
             s2 == [s1 EXCEPT !.proc[p] = [ZeroProc EXCEPT !.next = S.pool],
                              !.pool = p,
                              !.live = @ \ {p},
                              !.cb[p] = 0,
                              !.ini = IF @ = p THEN Freed ELSE @]
         IN IF p \in ListSet(S, "procs") \cup ListSet(S, "temp")
            THEN Fault(s2, "dangling")
            ELSE s2

ble_gattc_proc_insert(S, p) ==
    LET s1 == ble_hs_lock(S)
        s2 == STAILQ_INSERT_TAIL(s1, "procs", p)
    IN ble_hs_unlock(Ev(s2, <<"ins", p>>))

ble_gattc_proc_set_exp_timer(S, p) ==
    SetField(S, p, "exp_os_ticks", TickAdd(S.now, TimeoutTicks))

ble_gattc_proc_set_resume_timer(S, p) ==
    LET s1 == SetField(S, p, "flags", BLE_GATTC_PROC_F_STALLED)
        at == TickAdd(S.now, ResumeTicks)
    IN IF s1.fault # "none" THEN s1
       ELSE IF s1.ble_gattc_resume_at = 0
       THEN [s1 EXCEPT !.ble_gattc_resume_at = IF at = 0 THEN 1 ELSE at]
       ELSE s1

\* A faulty ble_gattc_process_status that arms the deadline of a STALLED
\* record as well; it is the alternative that C10 has to tell apart.
ble_gattc_process_status_rearms(S, p, status) ==
    IF S.fault # "none" THEN S
    ELSE IF p \in Range(FreeList(S)) THEN Fault(S, "use_after_free")
    ELSE IF status = "OK"
    THEN Ev(ble_gattc_proc_insert(ble_gattc_proc_set_exp_timer(S, p), p),
            <<"resched">>)
    ELSE ble_gattc_proc_free(S, p)

ble_gattc_process_status(S, p, status) ==
    IF S.fault # "none" THEN S
    ELSE IF p \in Range(FreeList(S)) THEN Fault(S, "use_after_free")
    ELSE IF status = "OK"
    THEN LET s1 == IF ~Stalled(S.proc[p])
                   THEN ble_gattc_proc_set_exp_timer(S, p) ELSE S
         IN Ev(ble_gattc_proc_insert(s1, p), <<"resched">>)
    ELSE ble_gattc_proc_free(S, p)

ble_gattc_process_resume_status(S, p, status) ==
    IF status = "OK" THEN [S EXCEPT !.rv = "OK"]
    ELSE IF status = "ENOMEM"
    THEN [ble_gattc_proc_set_resume_timer(S, p) EXCEPT !.rv = "OK"]
    ELSE [S EXCEPT !.rv = status]

(***************************************************************************)
(* $util: match criteria and extraction from ble_gattc_procs.              *)
(***************************************************************************)
ExtractFuel == 2 * MAX_PROCS + 2

ble_gattc_proc_matches_conn_op(rec, c) ==
    /\ c.conn_handle = rec.conn_handle
    /\ ~(c.op # rec.op /\ c.op # BLE_GATT_OP_NONE)

ble_gattc_proc_matches_conn_cid_op(rec, c) ==
    /\ c.conn_handle = rec.conn_handle
    /\ c.psm = rec.cid
    /\ ~(c.op # rec.op /\ c.op # BLE_GATT_OP_NONE)

\* A faulty ble_gattc_proc_matches_expired for which a record whose
\* deadline is the current tick has not expired; it is the alternative that
\* C7 has to tell apart.
ble_gattc_proc_matches_expired_late(rec, c) ==
    TickDiff(rec.exp_os_ticks, c.now) < 0

ble_gattc_proc_matches_expired(rec, c) ==
    TickDiff(rec.exp_os_ticks, c.now) <= 0

\* The criteria after ble_gattc_proc_matches_expired has looked at rec.
NextExpIn(rec, c) ==
    LET time_diff == TickDiff(rec.exp_os_ticks, c.now)
    IN IF time_diff > 0 /\ time_diff < c.next_exp_in
       THEN [c EXCEPT !.next_exp_in = time_diff] ELSE c

\* c.ops are the op codes of the rx entry table of the incoming response.
ble_gattc_proc_matches_conn_rx_entry(rec, c) ==
    /\ c.conn_handle = rec.conn_handle
    /\ c.cid = rec.cid
    /\ rec.op \in c.ops

ble_gattc_proc_matches_stalled(rec) == Stalled(rec)

\* cb(proc, arg) of ble_gattc_extract, by the kind of criteria.
Match(c, rec) ==
    CASE c.k = "conn_op" -> ble_gattc_proc_matches_conn_op(rec, c)
      [] c.k = "conn_cid_op" -> ble_gattc_proc_matches_conn_cid_op(rec, c)
      [] c.k = "expired" -> ble_gattc_proc_matches_expired(rec, c)
      [] c.k = "rx_entry" -> ble_gattc_proc_matches_conn_rx_entry(rec, c)
      [] c.k = "stalled" -> ble_gattc_proc_matches_stalled(rec)

\* Preemption protection: append to ble_gattc_procs every record of
\* temp_proc_list that a walk of ble_gattc_procs does not find.
RECURSIVE MergeTemp(_, _, _)
MergeTemp(S, proc, fuel) ==
    IF S.fault # "none" \/ proc = NULL THEN S
    ELSE IF fuel = 0 THEN Fault(S, "hang")
    ELSE LET next == S.proc[proc].next
             flag == proc \in ListSet(S, "procs")
         IN IF ~flag /\ Cyclic(S.proc, S.lst["procs"].first, {})
            THEN Fault(S, "hang")
            ELSE MergeTemp(IF flag THEN S
                           ELSE Ev(STAILQ_INSERT_TAIL(S, "procs", proc),
                                   <<"merge", proc>>),
                           next, fuel - 1)

RECURSIVE ExtractLoop(_, _, _, _, _, _)
ExtractLoop(S, proc, prev, num_extracted, max_procs, fuel) ==
    IF S.fault # "none" \/ proc = NULL THEN S
    ELSE IF fuel = 0 THEN Fault(S, "hang")
    ELSE LET next == S.proc[proc].next
             hit == Match(S.crit, S.proc[proc])
             s1 == IF S.crit.k = "expired"
                   THEN [S EXCEPT !.crit = NextExpIn(S.proc[proc], @)]
                   ELSE S
         IN IF hit
            THEN LET s2 == IF prev = NULL THEN STAILQ_REMOVE_HEAD(s1, "procs")
                           ELSE STAILQ_REMOVE_AFTER(s1, "procs", prev)
                     s3 == Ev(STAILQ_INSERT_TAIL(s2, "dst", proc),
                              <<"ext", proc>>)
                 IN IF max_procs > 0 /\ num_extracted + 1 >= max_procs
                    THEN s3
                    ELSE ExtractLoop(s3, next, prev, num_extracted + 1,
                                     max_procs, fuel - 1)
            ELSE ExtractLoop(s1, next, proc, num_extracted, max_procs,
                             fuel - 1)

\* A faulty ble_gattc_extract that returns without ble_hs_unlock; it is
\* the alternative that C4's lock discipline has to tell apart.
ble_gattc_extract_keeps_lock(S, max_procs) ==
    LET s1 == ble_hs_lock(STAILQ_INIT(S, "dst"))
        s2 == IF S.pp
              THEN STAILQ_INIT(MergeTemp(s1, s1.lst["temp"].first, ExtractFuel),
                               "temp")
              ELSE s1
    IN ExtractLoop(s2, s2.lst["procs"].first, NULL, 0, max_procs, ExtractFuel)

\* The matching records move to the list "dst"; the criteria are S.crit.
ble_gattc_extract(S, max_procs) ==
    LET s1 == ble_hs_lock(STAILQ_INIT(S, "dst"))
        s2 == IF S.pp
              THEN STAILQ_INIT(MergeTemp(s1, s1.lst["temp"].first, ExtractFuel),
                               "temp")
              ELSE s1
        s3 == ExtractLoop(s2, s2.lst["procs"].first, NULL, 0, max_procs,
                          ExtractFuel)
    IN ble_hs_unlock(s3)

ble_gattc_extract_by_conn_op(S, conn_handle, op, max_procs) ==
    ble_gattc_extract([S EXCEPT !.crit = [k |-> "conn_op",
                                          conn_handle |-> conn_handle,
                                          op |-> op]], max_procs)

ble_gattc_extract_first_by_conn_cid_op(S, conn_handle, cid, op) ==
    ble_gattc_extract([S EXCEPT !.crit = [k |-> "conn_cid_op",
                                          conn_handle |-> conn_handle,
                                          psm |-> cid, op |-> op]], 1)

ble_gattc_extract_stalled(S) ==
    ble_gattc_extract([S EXCEPT !.crit = [k |-> "stalled"]], 0)

\* The return value, criteria.next_exp_in, is left in S.crit.
ble_gattc_extract_expired(S) ==
    ble_gattc_extract([S EXCEPT !.crit = [k |-> "expired", now |-> S.now,
                                          next_exp_in |-> BLE_HS_FOREVER]], 0)

\* A faulty ble_gattc_extract_with_rx_entry that takes every matching record
\* out of the table; it is the alternative that C21 has to tell apart.
ble_gattc_extract_with_rx_entry_all(S, conn_handle, cid, ops) ==
    ble_gattc_extract([S EXCEPT !.crit = [k |-> "rx_entry",
                                          conn_handle |-> conn_handle,
                                          cid |-> cid, ops |-> ops]], 0)

ble_gattc_extract_with_rx_entry(S, conn_handle, cid, ops) ==
    ble_gattc_extract([S EXCEPT !.crit = [k |-> "rx_entry",
                                          conn_handle |-> conn_handle,
                                          cid |-> cid, ops |-> ops]], 1)

(***************************************************************************)
(* Application callbacks and transmissions.                                *)
(***************************************************************************)
\* A call of the application's callback of record p.  `terminal' says
\* whether the call ends the procedure for the application: a non-zero
\* status, the completion of a single-shot procedure, or a data callback
\* from which the application returns non-zero.
\* The ble_gatt_error handed to the application: the handle is 0 with a
\* status of success or BLE_HS_EDONE.
ble_gattc_error(status, att_handle) ==
    IF status \in {"OK", "EDONE"} THEN 0 ELSE att_handle

\* The att_handle of the ble_gatt_error that the callback of an error
\* handler passes on for record p.
ErrHandle(S, p, status, att_handle) ==
    Ev(S, <<"att_handle", p, ble_gattc_error(status, att_handle)>>)

UserCb(S, p, status, terminal) ==
    IF S.fault # "none" THEN S
    ELSE Ev([S EXCEPT !.cb[p] = IF terminal THEN @ + 1 ELSE @],
            <<"cb", p, status, InTable(S, p), S.proc[p].conn_handle>>)

\* A request handed to the ATT client, ble_att_clt_tx_*; its return code
\* for record p in this run is the input S.txin[p].
Tx(S, p, pdu) ==
    [Ev(S, <<"tx", p, pdu, S.txin[p], InTable(S, p)>>)
        EXCEPT !.rv = S.txin[p]]

\* The same for a request whose parameters the event keeps.
TxArg(S, p, pdu, arg) ==
    [Ev(S, <<"tx", p, pdu, S.txin[p], InTable(S, p), arg>>)
        EXCEPT !.rv = S.txin[p]]

(***************************************************************************)
(* $mtu                                                                    *)
(***************************************************************************)
ble_gattc_mtu_cb(S, p, status, mtu) ==
    UserCb(Ev(S, <<"mtu", p, mtu>>), p, status, TRUE)

ble_gattc_mtu_tmo(S, p) == ble_gattc_mtu_cb(S, p, "ETIMEOUT", 0)

ble_gattc_mtu_err(S, p, status, att_handle) ==
    ble_gattc_mtu_cb(ErrHandle(S, p, status, att_handle), p, status, 0)

\* ble_att_conn_chan_find fails when the connection is gone; that outcome
\* is the input S.txin[p] = "ENOTCONN".
ble_gattc_mtu_tx(S, p) ==
    LET s1 == ble_hs_unlock(Ev(ble_hs_lock(S), <<"find", p>>))
    IN IF S.txin[p] = "ENOTCONN" THEN [s1 EXCEPT !.rv = "ENOTCONN"]
       ELSE Tx(s1, p, "mtu_req")

(***************************************************************************)
(* $discover all services                                                  *)
(***************************************************************************)
\* The application's return value is the input S.cbrc.
ble_gattc_disc_all_svcs_cb(S, p, status) ==
    [UserCb(S, p, status, status # "OK" \/ S.cbrc # 0) EXCEPT !.rv = S.cbrc]

ble_gattc_disc_all_svcs_tmo(S, p) ==
    ble_gattc_disc_all_svcs_cb(S, p, "ETIMEOUT")

\* The request asks for the handles prev_handle + 1 .. 0xffff.
ble_gattc_disc_all_svcs_tx(S, p) ==
    TxArg(S, p, "read_group_type", <<S.proc[p].prev_handle + 1, MaxHandle>>)

ble_gattc_disc_all_svcs_resume(S, p) ==
    LET s1 == ble_gattc_disc_all_svcs_tx(S, p)
        s2 == ble_gattc_process_resume_status(s1, p, s1.rv)
    IN IF s2.rv # "OK"
       THEN [ble_gattc_disc_all_svcs_cb(s2, p, s2.rv) EXCEPT !.rv = s2.rv]
       ELSE s2

ble_gattc_disc_all_svcs_err(S, p, status, att_handle) ==
    LET st == IF status = "ATT_ATTR_NOT_FOUND" THEN "EDONE" ELSE status
    IN ble_gattc_disc_all_svcs_cb(ErrHandle(S, p, st, att_handle), p, st)

\* A faulty ble_gattc_disc_all_svcs_rx_adata that reports the service with
\* its end handle in both fields; it is the alternative that C14 has to
\* tell apart.
ble_gattc_disc_all_svcs_rx_adata_end_only(S, p, adata) ==
    LET bad == \/ ~adata.value_ok
               \/ adata.end_group_handle <= S.proc[p].prev_handle
        rc == IF bad THEN "EBADDATA" ELSE "OK"
        s1 == IF bad THEN S
              ELSE Ev(SetField(S, p, "prev_handle", adata.end_group_handle),
                      <<"svc", p, <<adata.end_group_handle,
                                    adata.end_group_handle, adata.uuid>>>>)
        s2 == ble_gattc_disc_all_svcs_cb(s1, p, rc)
    IN [s2 EXCEPT !.rv = IF rc # "OK" \/ s2.rv # 0 THEN "EDONE" ELSE "OK"]

\* adata.value_ok: value_len is 2 or 16 and the UUID parses.
ble_gattc_disc_all_svcs_rx_adata(S, p, adata) ==
    LET bad == \/ ~adata.value_ok
               \/ adata.end_group_handle <= S.proc[p].prev_handle
        rc == IF bad THEN "EBADDATA" ELSE "OK"
        s1 == IF bad THEN S
              ELSE Ev(SetField(S, p, "prev_handle", adata.end_group_handle),
                      <<"svc", p, <<adata.att_handle, adata.end_group_handle,
                                    adata.uuid>>>>)
        s2 == ble_gattc_disc_all_svcs_cb(s1, p, rc)
    IN [s2 EXCEPT !.rv = IF rc # "OK" \/ s2.rv # 0 THEN "EDONE" ELSE "OK"]

ble_gattc_disc_all_svcs_rx_complete(S, p, status) ==
    IF status # "OK"
    THEN [ble_gattc_disc_all_svcs_cb(S, p, status) EXCEPT !.rv = "EDONE"]
    ELSE IF S.proc[p].prev_handle = MaxHandle
    THEN [ble_gattc_disc_all_svcs_cb(S, p, "EDONE") EXCEPT !.rv = "EDONE"]
    ELSE LET s1 == ble_gattc_disc_all_svcs_resume(S, p)
         IN [s1 EXCEPT !.rv = IF s1.rv # "OK" THEN "EDONE" ELSE "OK"]

(***************************************************************************)
(* $write long                                                             *)
(***************************************************************************)
ble_gattc_write_long_cb(S, p, status) == UserCb(S, p, status, TRUE)

ble_gattc_write_long_tmo(S, p) == ble_gattc_write_long_cb(S, p, "ETIMEOUT")

\* ble_att_mtu_by_cid is 0 when the connection is gone; that outcome is the
\* input S.txin[p] = "ENOTCONN".  "ENOMEM" stands for the failure of
\* ble_hs_mbuf_att_pkt, of os_mbuf_appendfrom or of the ATT client.
\* A faulty ble_gattc_write_long_tx that puts all the data left into one
\* prepare write; it is the alternative that C27 has to tell apart.
ble_gattc_write_long_tx_whole(S, p) ==
    LET rec == S.proc[p]
        max_sz == IF S.txin[p] = "ENOTCONN" THEN 0 ELSE ChunkMax
        write_len == rec.om_len - rec.offset
    IN IF max_sz <= 0 THEN [S EXCEPT !.rv = "ENOTCONN"]
       ELSE IF write_len <= 0 THEN Tx(S, p, "exec_write")
       ELSE TxArg(SetField(S, p, "length", write_len), p, "prep_write",
                  <<rec.handle, rec.offset, write_len>>)

ble_gattc_write_long_tx(S, p) ==
    LET rec == S.proc[p]
        max_sz == IF S.txin[p] = "ENOTCONN" THEN 0 ELSE ChunkMax
        write_len == min(max_sz, rec.om_len - rec.offset)
    IN IF max_sz <= 0 THEN [S EXCEPT !.rv = "ENOTCONN"]
       ELSE IF write_len <= 0 THEN Tx(S, p, "exec_write")
       ELSE TxArg(SetField(S, p, "length", write_len), p, "prep_write",
                  <<rec.handle, rec.offset, write_len>>)

ble_gattc_write_long_resume(S, p) ==
    LET s1 == ble_gattc_write_long_tx(S, p)
        s2 == ble_gattc_process_resume_status(s1, p, s1.rv)
    IN IF s2.rv # "OK"
       THEN [ble_gattc_write_long_cb(s2, p, s2.rv) EXCEPT !.rv = s2.rv]
       ELSE s2

ble_gattc_write_long_err(S, p, status, att_handle) ==
    LET rec == S.proc[p]
        s1 == IF rec.offset > 0 /\ rec.offset < rec.om_len
              THEN Ev(S, <<"tx", p, "exec_cancel", "OK", InTable(S, p)>>)
              ELSE S
    IN ble_gattc_write_long_cb(ErrHandle(s1, p, status, att_handle), p, status)

\* rsp: status, handle and offset of the response, the length of its
\* value, and whether the value equals the bytes that were sent.
ble_gattc_write_long_rx_prep(S, p, rsp) ==
    LET rec == S.proc[p]
        bad == \/ rec.offset >= rec.om_len
               \/ rsp.handle # rec.handle
               \/ rsp.offset # rec.offset
               \/ rsp.offset + rsp.len > rec.om_len
               \/ rsp.len # rec.length
        err(s, rc) == [ble_gattc_write_long_cb(s, p, rc) EXCEPT !.rv = "EDONE"]
    IN IF rsp.status # "OK" THEN err(S, rsp.status)
       ELSE IF bad THEN err(S, "EBADDATA")
       ELSE IF ~rsp.match
       THEN err(Ev(S, <<"tx", p, "exec_cancel", "OK", InTable(S, p)>>),
                "EBADDATA")
       ELSE LET s1 == SetField(S, p, "offset", rec.offset + rsp.len)
                s2 == ble_gattc_write_long_resume(s1, p)
            IN IF s2.rv # "OK" THEN err(s2, s2.rv)
               ELSE [s2 EXCEPT !.rv = "OK"]

ble_gattc_write_long_rx_exec(S, p, status) ==
    IF S.proc[p].offset < S.proc[p].om_len
    THEN [S EXCEPT !.rv = "EBADDATA"]
    ELSE [ble_gattc_write_long_cb(S, p, status) EXCEPT !.rv = "EDONE"]

(***************************************************************************)
(* $write reliable                                                         *)
(***************************************************************************)
ble_gattc_write_reliable_cb(S, p, status) == UserCb(S, p, status, TRUE)

ble_gattc_write_reliable_tmo(S, p) ==
    ble_gattc_write_reliable_cb(S, p, "ETIMEOUT")

\* max_sz is uint16_t: with the connection gone (MTU 0, the input
\* S.txin[p] = "ENOTCONN") it is 65531 and the request is still handed to
\* the ATT client, which returns the error.
ble_gattc_write_reliable_tx(S, p) ==
    LET rec == S.proc[p]
        attr == rec.attrs[rec.cur_attr + 1]
        max_sz == IF S.txin[p] = "ENOTCONN" THEN 65531 ELSE ChunkMax
    IN IF rec.cur_attr >= rec.num_attrs THEN Tx(S, p, "exec_write")
       ELSE IF max_sz <= 0 THEN [S EXCEPT !.rv = "ENOTCONN"]
       ELSE TxArg(SetField(S, p, "length",
                           min(max_sz, attr.om_len - attr.offset)),
                  p, "prep_write",
                  <<attr.handle, attr.offset,
                    min(max_sz, attr.om_len - attr.offset)>>)

ble_gattc_write_reliable_resume(S, p) ==
    LET s1 == ble_gattc_write_reliable_tx(S, p)
        s2 == ble_gattc_process_resume_status(s1, p, s1.rv)
    IN IF s2.rv # "OK"
       THEN [ble_gattc_write_reliable_cb(s2, p, s2.rv) EXCEPT !.rv = s2.rv]
       ELSE s2

\* The callback first, the Execute Write (cancel) after it.
ble_gattc_write_reliable_err(S, p, status, att_handle) ==
    LET s1 == ble_gattc_write_reliable_cb(
                  ErrHandle(S, p, status, att_handle), p, status)
    IN IF S.proc[p].cur_attr < S.proc[p].num_attrs
       THEN Ev(s1, <<"tx", p, "exec_cancel", "OK", InTable(s1, p)>>)
       ELSE s1

\* A faulty ble_gattc_write_reliable_rx_prep that moves to the next
\* attribute after every acknowledged slice; it is the alternative that C28
\* has to tell apart.
ble_gattc_write_reliable_rx_prep_skip(S, p, rsp) ==
    LET rec == S.proc[p]
        i == rec.cur_attr + 1
        attr == rec.attrs[i]
        err(s, rc) ==
            [ble_gattc_write_reliable_err(s, p, rc, 0) EXCEPT !.rv = "EDONE"]
        off == attr.offset + rec.length
        last == TRUE
        s1 == SetField(S, p, "attrs",
                  [rec.attrs EXCEPT ![i].offset = IF last THEN 0 ELSE off])
        s2 == IF last THEN SetField(s1, p, "cur_attr", rec.cur_attr + 1)
              ELSE s1
        s3 == ble_gattc_write_reliable_resume(s2, p)
    IN IF rsp.status # "OK" THEN err(S, rsp.status)
       ELSE IF rec.cur_attr >= rec.num_attrs THEN err(S, "EBADDATA")
       ELSE IF rsp.handle # attr.handle THEN err(S, "EBADDATA")
       ELSE IF rsp.offset # attr.offset THEN err(S, "EBADDATA")
       ELSE IF ~rsp.match \/ rsp.len < rec.length THEN err(S, "EBADDATA")
       ELSE IF s3.rv # "OK" THEN err(s3, s3.rv)
       ELSE [s3 EXCEPT !.rv = "OK"]

\* os_mbuf_cmpm over proc->write_reliable.length bytes: a response shorter
\* than that differs.
ble_gattc_write_reliable_rx_prep(S, p, rsp) ==
    LET rec == S.proc[p]
        i == rec.cur_attr + 1
        attr == rec.attrs[i]
        err(s, rc) ==
            [ble_gattc_write_reliable_err(s, p, rc, 0) EXCEPT !.rv = "EDONE"]
        off == attr.offset + rec.length
        last == off >= attr.om_len
        s1 == SetField(S, p, "attrs",
                  [rec.attrs EXCEPT ![i].offset = IF last THEN 0 ELSE off])
        s2 == IF last THEN SetField(s1, p, "cur_attr", rec.cur_attr + 1)
              ELSE s1
        s3 == ble_gattc_write_reliable_resume(s2, p)
    IN IF rsp.status # "OK" THEN err(S, rsp.status)
       ELSE IF rec.cur_attr >= rec.num_attrs THEN err(S, "EBADDATA")
       ELSE IF rsp.handle # attr.handle THEN err(S, "EBADDATA")
       ELSE IF rsp.offset # attr.offset THEN err(S, "EBADDATA")
       ELSE IF ~rsp.match \/ rsp.len < rec.length THEN err(S, "EBADDATA")
       ELSE IF s3.rv # "OK" THEN err(s3, s3.rv)
       ELSE [s3 EXCEPT !.rv = "OK"]

ble_gattc_write_reliable_rx_exec(S, p, status) ==
    [ble_gattc_write_reliable_cb(S, p, status) EXCEPT !.rv = "EDONE"]

(***************************************************************************)
(* $find included services                                                 *)
(***************************************************************************)
\* The event "svc" keeps the service handed to the application; NULL when
\* the callback gets no service.
ble_gattc_find_inc_svcs_cb(S, p, status, svc) ==
    [UserCb(Ev(S, <<"svc", p, svc>>), p, status, status # "OK" \/ S.cbrc # 0)
        EXCEPT !.rv = S.cbrc]

ble_gattc_find_inc_svcs_tmo(S, p) ==
    ble_gattc_find_inc_svcs_cb(S, p, "ETIMEOUT", NULL)

ble_gattc_find_inc_svcs_tx(S, p) ==
    IF S.proc[p].cur_start = 0
    THEN TxArg(S, p, "read_type",
               <<S.proc[p].prev_handle + 1, S.proc[p].end_handle>>)
    ELSE TxArg(S, p, "read", <<S.proc[p].cur_start>>)

ble_gattc_find_inc_svcs_resume(S, p) ==
    LET s1 == ble_gattc_find_inc_svcs_tx(S, p)
        s2 == ble_gattc_process_resume_status(s1, p, s1.rv)
    IN IF s2.rv # "OK"
       THEN [ble_gattc_find_inc_svcs_cb(s2, p, s2.rv, NULL) EXCEPT
                 !.rv = s2.rv]
       ELSE s2

ble_gattc_find_inc_svcs_err(S, p, status, att_handle) ==
    LET st == IF S.proc[p].cur_start = 0 /\ status = "ATT_ATTR_NOT_FOUND"
              THEN "EDONE" ELSE status
    IN ble_gattc_find_inc_svcs_cb(ErrHandle(S, p, st, att_handle), p, st,
                                  NULL)

\* rsp.uuid_ok: the value of the response parses as a 128-bit UUID.
ble_gattc_find_inc_svcs_rx_read_rsp(S, p, rsp) ==
    LET rec == S.proc[p]
        err(s, rc) ==
            [ble_gattc_find_inc_svcs_cb(s, p, rc, NULL) EXCEPT !.rv = "EDONE"]
    IN IF ~rsp.uuid_ok THEN err(S, "EBADDATA")
       ELSE IF rec.cur_start = 0 THEN err(S, "EBADDATA")
       ELSE IF rsp.status # "OK" THEN err(S, rsp.status)
       ELSE LET s1 == ble_gattc_find_inc_svcs_cb(S, p, "OK",
                          <<rec.cur_start, rec.cur_end, rsp.uuid>>)
                s2 == SetField(SetField(s1, p, "cur_start", 0), p,
                               "cur_end", 0)
                s3 == ble_gattc_find_inc_svcs_resume(s2, p)
            IN IF s1.rv # 0 THEN [s1 EXCEPT !.rv = "EDONE"]
               ELSE IF s3.rv # "OK" THEN err(s3, s3.rv)
               ELSE [s3 EXCEPT !.rv = "OK"]

\* adata: the attribute handle of the entry, the kind of its value by its
\* length (4 bytes: "NO_UUID", 6 bytes: "UUID", anything else: "BAD"),
\* whether a 16-bit UUID parses, and the handles the value starts with.
\* At `done' the callback is called with status 0 whatever rc is, and rc
\* becomes the application's return value when it was not 0.
ble_gattc_find_inc_svcs_rx_adata(S, p, adata) ==
    LET rec == S.proc[p]
        regress == adata.att_handle <= rec.prev_handle
        s1 == IF regress THEN S
              ELSE SetField(S, p, "prev_handle", adata.att_handle)
        parked == ~regress /\ adata.value_len = "NO_UUID"
        s2 == IF parked
              THEN SetField(SetField(s1, p, "cur_start", adata.inc_start),
                            p, "cur_end", adata.inc_end)
              ELSE s1
        rc0 == IF regress THEN "EBADDATA"
               ELSE IF adata.value_len = "BAD" THEN "EBADDATA"
               ELSE IF adata.value_len = "UUID" /\ ~adata.uuid_ok
               THEN "EBADDATA"
               ELSE "OK"
        svc == IF ~regress /\ adata.value_len = "UUID"
               THEN <<adata.inc_start, adata.inc_end>> ELSE <<0, 0>>
        s3 == ble_gattc_find_inc_svcs_cb(s2, p, "OK", svc)
        cbrc == IF parked THEN 0 ELSE s3.rv
        rc == IF parked THEN "OK"
              ELSE IF rc0 # "OK" THEN (IF cbrc # 0 THEN "ECB" ELSE "OK")
              ELSE "OK"
    IN IF rec.cur_start # 0 THEN [S EXCEPT !.rv = "OK"]
       ELSE [(IF parked THEN s2 ELSE s3) EXCEPT
                 !.rv = IF rc # "OK" \/ cbrc # 0 THEN "EDONE" ELSE "OK"]

ble_gattc_find_inc_svcs_rx_complete(S, p, status) ==
    IF status # "OK"
    THEN [ble_gattc_find_inc_svcs_cb(S, p, status, NULL) EXCEPT
              !.rv = "EDONE"]
    ELSE IF S.proc[p].prev_handle = MaxAttr
    THEN [ble_gattc_find_inc_svcs_cb(S, p, "EDONE", NULL) EXCEPT
              !.rv = "EDONE"]
    ELSE LET s1 == ble_gattc_find_inc_svcs_resume(S, p)
         IN [s1 EXCEPT !.rv = IF s1.rv # "OK" THEN "EDONE" ELSE "OK"]

(***************************************************************************)
(* $discover all characteristics                                           *)
(***************************************************************************)
\* The application's return value is the input S.cbrc.
ble_gattc_disc_all_chrs_cb(S, p, status) ==
    [UserCb(S, p, status, status # "OK" \/ S.cbrc # 0) EXCEPT !.rv = S.cbrc]

\* The start handle is the uint16_t argument prev_handle + 1: the sum is
\* taken modulo MaxHandle + 1, as 0xffff + 1 is 0 in 16 bits.
ble_gattc_disc_all_chrs_tx(S, p) ==
    TxArg(S, p, "read_type",
          <<(S.proc[p].prev_handle + 1) % (MaxHandle + 1),
            S.proc[p].end_handle>>)

ble_gattc_disc_all_chrs_resume(S, p) ==
    LET s1 == ble_gattc_disc_all_chrs_tx(S, p)
        s2 == ble_gattc_process_resume_status(s1, p, s1.rv)
    IN IF s2.rv # "OK"
       THEN [ble_gattc_disc_all_chrs_cb(s2, p, s2.rv) EXCEPT !.rv = s2.rv]
       ELSE s2

ble_gattc_disc_all_chrs_err(S, p, status, att_handle) ==
    LET st == IF status = "ATT_ATTR_NOT_FOUND" THEN "EDONE" ELSE status
    IN ble_gattc_disc_all_chrs_cb(ErrHandle(S, p, st, att_handle), p, st)

\* adata.value_ok: value_len is BLE_GATT_CHR_DECL_SZ_16 or _128 and the
\* UUID parses.
ble_gattc_disc_all_chrs_rx_adata(S, p, adata) ==
    LET bad == \/ ~adata.value_ok
               \/ adata.att_handle <= S.proc[p].prev_handle
        rc == IF bad THEN "EBADDATA" ELSE "OK"
        s1 == IF bad THEN S
              ELSE SetField(S, p, "prev_handle", adata.att_handle)
        s2 == ble_gattc_disc_all_chrs_cb(s1, p, rc)
    IN [s2 EXCEPT !.rv = IF rc # "OK" \/ s2.rv # 0 THEN "EDONE" ELSE "OK"]

ble_gattc_disc_all_chrs_rx_complete(S, p, status) ==
    IF status # "OK"
    THEN [ble_gattc_disc_all_chrs_cb(S, p, status) EXCEPT !.rv = "EDONE"]
    ELSE IF S.proc[p].prev_handle = S.proc[p].end_handle
    THEN [ble_gattc_disc_all_chrs_cb(S, p, "EDONE") EXCEPT !.rv = "EDONE"]
    ELSE LET s1 == ble_gattc_disc_all_chrs_resume(S, p)
         IN [s1 EXCEPT !.rv = IF s1.rv # "OK" THEN "EDONE" ELSE "OK"]

(***************************************************************************)
(* $discover all descriptors                                               *)
(***************************************************************************)
ble_gattc_disc_all_dscs_cb(S, p, status) ==
    [UserCb(S, p, status, status # "OK" \/ S.cbrc # 0) EXCEPT !.rv = S.cbrc]

\* ble_att_clt_tx_find_info(conn_handle, cid, prev_handle + 1, end_handle);
\* the start handle is a uint16_t argument.
ble_gattc_disc_all_dscs_tx(S, p) ==
    TxArg(S, p, "find_info",
          <<(S.proc[p].prev_handle + 1) % (MaxHandle + 1),
            S.proc[p].end_handle>>)

ble_gattc_disc_all_dscs_resume(S, p) ==
    LET s1 == ble_gattc_disc_all_dscs_tx(S, p)
        s2 == ble_gattc_process_resume_status(s1, p, s1.rv)
    IN IF s2.rv # "OK"
       THEN [ble_gattc_disc_all_dscs_cb(s2, p, s2.rv) EXCEPT !.rv = s2.rv]
       ELSE s2

ble_gattc_disc_all_dscs_err(S, p, status, att_handle) ==
    LET st == IF status = "ATT_ATTR_NOT_FOUND" THEN "EDONE" ELSE status
    IN ble_gattc_disc_all_dscs_cb(ErrHandle(S, p, st, att_handle), p, st)

ble_gattc_disc_all_dscs_rx_idata(S, p, idata) ==
    LET bad == idata.attr_handle <= S.proc[p].prev_handle
        rc == IF bad THEN "EBADDATA" ELSE "OK"
        s1 == IF bad THEN S
              ELSE SetField(S, p, "prev_handle", idata.attr_handle)
        s2 == ble_gattc_disc_all_dscs_cb(s1, p, rc)
    IN [s2 EXCEPT !.rv = IF rc # "OK" \/ s2.rv # 0 THEN "EDONE" ELSE "OK"]

ble_gattc_disc_all_dscs_rx_complete(S, p, status) ==
    IF status # "OK"
    THEN [ble_gattc_disc_all_dscs_cb(S, p, status) EXCEPT !.rv = "EDONE"]
    ELSE IF S.proc[p].prev_handle = S.proc[p].end_handle
    THEN [ble_gattc_disc_all_dscs_cb(S, p, "EDONE") EXCEPT !.rv = "EDONE"]
    ELSE LET s1 == ble_gattc_disc_all_dscs_resume(S, p)
         IN [s1 EXCEPT !.rv = IF s1.rv # "OK" THEN "EDONE" ELSE "OK"]

(***************************************************************************)
(* $read long                                                              *)
(***************************************************************************)
OffMod == 2 ^ OffBits

\* The event "attr" keeps the offset and the length of the chunk handed to
\* the application; NULL when the callback gets no attribute.
ble_gattc_read_long_cb(S, p, status, attr) ==
    [UserCb(Ev(S, <<"attr", p, attr>>), p, status, status # "OK" \/ S.cbrc # 0)
        EXCEPT !.rv = S.cbrc]

ble_gattc_read_long_tmo(S, p) == ble_gattc_read_long_cb(S, p, "ETIMEOUT", NULL)

ble_gattc_read_long_tx(S, p) ==
    IF S.proc[p].offset = 0
    THEN TxArg(S, p, "read", <<S.proc[p].handle>>)
    ELSE TxArg(S, p, "read_blob", <<S.proc[p].handle, S.proc[p].offset>>)

ble_gattc_read_long_resume(S, p) ==
    LET s1 == ble_gattc_read_long_tx(S, p)
        s2 == ble_gattc_process_resume_status(s1, p, s1.rv)
    IN IF s2.rv # "OK"
       THEN [ble_gattc_read_long_cb(s2, p, s2.rv, NULL) EXCEPT !.rv = s2.rv]
       ELSE s2

ble_gattc_read_long_err(S, p, status, att_handle) ==
    ble_gattc_read_long_cb(ErrHandle(S, p, status, att_handle), p, status,
                           NULL)

\* A faulty ble_gattc_read_long_rx_read_rsp that does not look at what the
\* callback returned; it is the alternative that C31 has to tell apart.
ble_gattc_read_long_rx_read_rsp_deaf(S, p, rsp) ==
    LET rec == S.proc[p]
        s1 == ble_gattc_read_long_cb(S, p, rsp.status,
                                     <<rec.offset, rsp.len>>)
        mtu == IF S.txin[p] = "ENOTCONN" THEN 0 ELSE ReadMax + 1
        s2 == SetField(s1, p, "offset", (rec.offset + rsp.len) % OffMod)
        s3 == ble_gattc_read_long_resume(s2, p)
    IN IF rsp.status # "OK" THEN [s1 EXCEPT !.rv = "EDONE"]
       ELSE IF mtu = 0 THEN [s1 EXCEPT !.rv = "EDONE"]
       ELSE IF rsp.len < mtu - 1
       THEN [ble_gattc_read_long_cb(s1, p, "EDONE", NULL) EXCEPT
                 !.rv = "EDONE"]
       ELSE [s3 EXCEPT !.rv = IF s3.rv # "OK" THEN "EDONE" ELSE "OK"]

\* rsp.len is OS_MBUF_PKTLEN(*om).  ble_att_mtu_by_cid is 0 when the
\* connection is gone; that outcome is the input S.txin[p] = "ENOTCONN".
\* proc->read_long.offset += data_len is uint16_t arithmetic.
ble_gattc_read_long_rx_read_rsp(S, p, rsp) ==
    LET rec == S.proc[p]
        s1 == ble_gattc_read_long_cb(S, p, rsp.status,
                                     <<rec.offset, rsp.len>>)
        mtu == IF S.txin[p] = "ENOTCONN" THEN 0 ELSE ReadMax + 1
        s2 == SetField(s1, p, "offset", (rec.offset + rsp.len) % OffMod)
        s3 == ble_gattc_read_long_resume(s2, p)
    IN IF s1.rv # 0 \/ rsp.status # "OK" THEN [s1 EXCEPT !.rv = "EDONE"]
       ELSE IF mtu = 0 THEN [s1 EXCEPT !.rv = "EDONE"]
       ELSE IF rsp.len < mtu - 1
       THEN [ble_gattc_read_long_cb(s1, p, "EDONE", NULL) EXCEPT
                 !.rv = "EDONE"]
       ELSE [s3 EXCEPT !.rv = IF s3.rv # "OK" THEN "EDONE" ELSE "OK"]

(***************************************************************************)
(* Dispatch tables and the engine's sweeps.                                *)
(***************************************************************************)
\* ble_gattc_err_dispatch[op](proc, status, att_handle)
ErrDispatch(S, p, status, att_handle) ==
    CASE S.proc[p].op = BLE_GATT_OP_MTU ->
             ble_gattc_mtu_err(S, p, status, att_handle)
      [] S.proc[p].op = BLE_GATT_OP_DISC_ALL_SVCS ->
             ble_gattc_disc_all_svcs_err(S, p, status, att_handle)
      [] S.proc[p].op = BLE_GATT_OP_FIND_INC_SVCS ->
             ble_gattc_find_inc_svcs_err(S, p, status, att_handle)
      [] S.proc[p].op = BLE_GATT_OP_DISC_ALL_CHRS ->
             ble_gattc_disc_all_chrs_err(S, p, status, att_handle)
      [] S.proc[p].op = BLE_GATT_OP_DISC_ALL_DSCS ->
             ble_gattc_disc_all_dscs_err(S, p, status, att_handle)
      [] S.proc[p].op = BLE_GATT_OP_READ_LONG ->
             ble_gattc_read_long_err(S, p, status, att_handle)
      [] S.proc[p].op = BLE_GATT_OP_WRITE_LONG ->
             ble_gattc_write_long_err(S, p, status, att_handle)
      [] S.proc[p].op = BLE_GATT_OP_WRITE_RELIABLE ->
             ble_gattc_write_reliable_err(S, p, status, att_handle)
      [] OTHER -> Fault(S, "null_call")

\* ble_gattc_resume_dispatch[op](proc); the entry of BLE_GATT_OP_MTU is NULL.
ResumeDispatch(S, p) ==
    CASE S.proc[p].op = BLE_GATT_OP_DISC_ALL_SVCS ->
             ble_gattc_disc_all_svcs_resume(S, p)
      [] S.proc[p].op = BLE_GATT_OP_FIND_INC_SVCS ->
             ble_gattc_find_inc_svcs_resume(S, p)
      [] S.proc[p].op = BLE_GATT_OP_DISC_ALL_CHRS ->
             ble_gattc_disc_all_chrs_resume(S, p)
      [] S.proc[p].op = BLE_GATT_OP_DISC_ALL_DSCS ->
             ble_gattc_disc_all_dscs_resume(S, p)
      [] S.proc[p].op = BLE_GATT_OP_READ_LONG ->
             ble_gattc_read_long_resume(S, p)
      [] S.proc[p].op = BLE_GATT_OP_WRITE_LONG ->
             ble_gattc_write_long_resume(S, p)
      [] S.proc[p].op = BLE_GATT_OP_WRITE_RELIABLE ->
             ble_gattc_write_reliable_resume(S, p)
      [] OTHER -> Fault(S, "null_call")

\* ble_gattc_tmo_dispatch[op](proc)
ble_gattc_proc_timeout(S, p) ==
    CASE S.proc[p].op = BLE_GATT_OP_MTU -> ble_gattc_mtu_tmo(S, p)
      [] S.proc[p].op = BLE_GATT_OP_DISC_ALL_SVCS ->
             ble_gattc_disc_all_svcs_tmo(S, p)
      [] S.proc[p].op = BLE_GATT_OP_FIND_INC_SVCS ->
             ble_gattc_find_inc_svcs_tmo(S, p)
      [] S.proc[p].op = BLE_GATT_OP_DISC_ALL_CHRS ->
             ble_gattc_disc_all_chrs_cb(S, p, "ETIMEOUT")
      [] S.proc[p].op = BLE_GATT_OP_DISC_ALL_DSCS ->
             ble_gattc_disc_all_dscs_cb(S, p, "ETIMEOUT")
      [] S.proc[p].op = BLE_GATT_OP_READ_LONG ->
             ble_gattc_read_long_tmo(S, p)
      [] S.proc[p].op = BLE_GATT_OP_WRITE_LONG ->
             ble_gattc_write_long_tmo(S, p)
      [] S.proc[p].op = BLE_GATT_OP_WRITE_RELIABLE ->
             ble_gattc_write_reliable_tmo(S, p)
      [] OTHER -> S

RECURSIVE FailLoop(_, _, _)
FailLoop(S, status, fuel) ==
    LET proc == S.lst["dst"].first
    IN IF S.fault # "none" \/ proc = NULL THEN S
       ELSE IF fuel = 0 THEN Fault(S, "hang")
       ELSE LET s1 == ErrDispatch(S, proc, status, 0)
                s2 == STAILQ_REMOVE_HEAD(s1, "dst")
            IN FailLoop(ble_gattc_proc_free(s2, proc), status, fuel - 1)

ble_gattc_fail_procs(S, conn_handle, op, status) ==
    FailLoop(ble_gattc_extract_by_conn_op(S, conn_handle, op, 0), status,
             ExtractFuel)

\* STAILQ_FOREACH(proc, &stall_list, next): the link of proc is read after
\* the body has run.  When the body freed proc the link read is the one
\* os_memblock_put stored, and a non-null one makes the loop go on with a
\* block of the free list.
RECURSIVE ResumeLoop(_, _, _)
ResumeLoop(S, proc, fuel) ==
    IF S.fault # "none" \/ proc = NULL THEN S
    ELSE IF fuel = 0 THEN Fault(S, "hang")
    ELSE IF proc \in Range(FreeList(S)) THEN Fault(S, "use_after_free")
    ELSE LET s1 == SetField(Ev(S, <<"resume", proc, InTable(S, proc)>>),
                            proc, "flags", 0)
             s2 == ResumeDispatch(s1, proc)
             s3 == ble_gattc_process_status(s2, proc, s2.rv)
         IN ResumeLoop(s3, s3.proc[proc].next, fuel - 1)

ble_gattc_resume_procs(S) ==
    LET s1 == ble_gattc_extract_stalled([S EXCEPT !.ble_gattc_resume_at = 0])
    IN ResumeLoop(s1, s1.lst["dst"].first, ExtractFuel)

ble_gattc_ticks_until_resume(S) ==
    IF S.ble_gattc_resume_at = 0 THEN BLE_HS_FOREVER
    ELSE LET diff == TickDiff(S.ble_gattc_resume_at, S.now)
         IN IF diff <= 0 THEN 0 ELSE diff

RECURSIVE TimerLoop(_, _)
TimerLoop(S, fuel) ==
    LET proc == S.lst["dst"].first
    IN IF S.fault # "none" \/ proc = NULL THEN S
       ELSE IF fuel = 0 THEN Fault(S, "hang")
       ELSE LET s1 == ble_gattc_proc_timeout(S, proc)
                s2 == Ev(s1, <<"term", proc, "REM_USER_CONN_TERM",
                               s1.proc[proc].conn_handle>>)
                s3 == STAILQ_REMOVE_HEAD(s2, "dst")
            IN TimerLoop(ble_gattc_proc_free(s3, proc), fuel - 1)

\* A faulty ble_gattc_timer that returns the time to the next expiry and
\* leaves the resume clock out; it is the alternative that C20 has to tell
\* apart.
ble_gattc_timer_exp_only(S) ==
    LET s0 == Ev(S, <<"call", "ble_gattc_timer">>)
        s1 == ble_gattc_extract_expired(s0)
        ticks_until_exp == s1.crit.next_exp_in
        s2 == TimerLoop(s1, ExtractFuel)
        s3 == IF ble_gattc_ticks_until_resume(s2) = 0
              THEN ble_gattc_resume_procs(s2) ELSE s2
    IN Ev(s3, <<"ticks", ticks_until_exp>>)

ble_gattc_timer(S) ==
    LET s0 == Ev(S, <<"call", "ble_gattc_timer">>)
        s1 == ble_gattc_extract_expired(s0)
        ticks_until_exp == s1.crit.next_exp_in
        s2 == TimerLoop(s1, ExtractFuel)
        s3 == IF ble_gattc_ticks_until_resume(s2) = 0
              THEN ble_gattc_resume_procs(s2) ELSE s2
    IN Ev(s3, <<"ticks", min(ticks_until_exp,
                             ble_gattc_ticks_until_resume(s3))>>)

(***************************************************************************)
(* $rx: responses handed over by the ATT client.                           *)
(***************************************************************************)
\* The record a ble_gattc_extract of at most one record returned.
First(S) == S.lst["dst"].first

\* A faulty ble_gattc_rx_err that does not pass the handle of the error
\* response on; it is the alternative that C22 has to tell apart.
ble_gattc_rx_err_no_handle(S, conn_handle, cid, handle, status) ==
    LET s0 == Ev(S, <<"call", "ble_gattc_rx_err">>)
        s1 == ble_gattc_extract_first_by_conn_cid_op(s0, conn_handle, cid,
                                                     BLE_GATT_OP_NONE)
        proc == First(s1)
    IN IF proc = NULL THEN s1
       ELSE ble_gattc_proc_free(
                ErrDispatch(s1, proc, BLE_HS_ERR_ATT(status), 0), proc)

ble_gattc_rx_err(S, conn_handle, cid, handle, status) ==
    LET s0 == Ev(S, <<"call", "ble_gattc_rx_err">>)
        s1 == ble_gattc_extract_first_by_conn_cid_op(s0, conn_handle, cid,
                                                     BLE_GATT_OP_NONE)
        proc == First(s1)
    IN IF proc = NULL THEN s1
       ELSE ble_gattc_proc_free(
                ErrDispatch(s1, proc, BLE_HS_ERR_ATT(status), handle), proc)

\* A faulty ble_gattc_rx_mtu that hands the record back to the table after
\* the callback; it is the alternative that C13 has to tell apart.
ble_gattc_rx_mtu_requeues(S, conn_handle, status, chan_mtu) ==
    LET s0 == Ev(S, <<"call", "ble_gattc_rx_mtu">>)
        s1 == ble_gattc_extract_first_by_conn_cid_op(s0, conn_handle,
                  BLE_L2CAP_CID_ATT, BLE_GATT_OP_MTU)
        proc == First(s1)
    IN IF proc = NULL THEN s1
       ELSE ble_gattc_process_status(
                ble_gattc_mtu_cb(s1, proc, status, chan_mtu), proc, "OK")

ble_gattc_rx_mtu(S, conn_handle, status, chan_mtu) ==
    LET s0 == Ev(S, <<"call", "ble_gattc_rx_mtu">>)
        s1 == ble_gattc_extract_first_by_conn_cid_op(s0, conn_handle,
                  BLE_L2CAP_CID_ATT, BLE_GATT_OP_MTU)
        proc == First(s1)
    IN IF proc = NULL THEN s1
       ELSE ble_gattc_process_status(
                ble_gattc_mtu_cb(s1, proc, status, chan_mtu), proc, "EDONE")

ble_gattc_rx_read_group_type_adata(S, conn_handle, cid, adata) ==
    LET s0 == Ev(S, <<"call", "ble_gattc_rx_read_group_type_adata">>)
        s1 == ble_gattc_extract_first_by_conn_cid_op(s0, conn_handle, cid,
                  BLE_GATT_OP_DISC_ALL_SVCS)
        proc == First(s1)
        s2 == ble_gattc_disc_all_svcs_rx_adata(s1, proc, adata)
    IN IF proc = NULL THEN s1
       ELSE ble_gattc_process_status(s2, proc, s2.rv)

ble_gattc_rx_read_group_type_complete(S, conn_handle, cid, status) ==
    LET s0 == Ev(S, <<"call", "ble_gattc_rx_read_group_type_complete">>)
        s1 == ble_gattc_extract_first_by_conn_cid_op(s0, conn_handle, cid,
                  BLE_GATT_OP_DISC_ALL_SVCS)
        proc == First(s1)
        s2 == ble_gattc_disc_all_svcs_rx_complete(s1, proc, status)
    IN IF proc = NULL THEN s1
       ELSE ble_gattc_process_status(s2, proc, s2.rv)

\* ble_gattc_rx_read_type_elem_entries and _complete_entries
RxReadTypeOps ==
    {BLE_GATT_OP_FIND_INC_SVCS, BLE_GATT_OP_DISC_ALL_CHRS,
     BLE_GATT_OP_DISC_CHR_UUID, BLE_GATT_OP_READ_UUID}

\* ble_gattc_rx_read_rsp_entries
RxReadRspOps ==
    {BLE_GATT_OP_READ, BLE_GATT_OP_READ_LONG, BLE_GATT_OP_FIND_INC_SVCS}

\* Of the procedures of the read-by-type table the model has the included-
\* service scan and the discovery of all characteristics; rx_entry->cb of
\* the other two is not modelled.
ble_gattc_rx_read_type_adata(S, conn_handle, cid, adata) ==
    LET s0 == Ev(S, <<"call", "ble_gattc_rx_read_type_adata">>)
        s1 == ble_gattc_extract_with_rx_entry(s0, conn_handle, cid,
                                              RxReadTypeOps)
        proc == First(s1)
        s2 == IF s1.proc[proc].op = BLE_GATT_OP_DISC_ALL_CHRS
              THEN ble_gattc_disc_all_chrs_rx_adata(s1, proc, adata)
              ELSE ble_gattc_find_inc_svcs_rx_adata(s1, proc, adata)
    IN IF proc = NULL THEN s1
       ELSE ble_gattc_process_status(s2, proc, s2.rv)

ble_gattc_rx_read_type_complete(S, conn_handle, cid, status) ==
    LET s0 == Ev(S, <<"call", "ble_gattc_rx_read_type_complete">>)
        s1 == ble_gattc_extract_with_rx_entry(s0, conn_handle, cid,
                                              RxReadTypeOps)
        proc == First(s1)
        s2 == IF s1.proc[proc].op = BLE_GATT_OP_DISC_ALL_CHRS
              THEN ble_gattc_disc_all_chrs_rx_complete(s1, proc, status)
              ELSE ble_gattc_find_inc_svcs_rx_complete(s1, proc, status)
    IN IF proc = NULL THEN s1
       ELSE ble_gattc_process_status(s2, proc, s2.rv)

ble_gattc_rx_read_rsp(S, conn_handle, cid, rsp) ==
    LET s0 == Ev(S, <<"call", "ble_gattc_rx_read_rsp">>)
        s1 == ble_gattc_extract_with_rx_entry(s0, conn_handle, cid,
                                              RxReadRspOps)
        proc == First(s1)
        s2 == IF s1.proc[proc].op = BLE_GATT_OP_READ_LONG
              THEN ble_gattc_read_long_rx_read_rsp(s1, proc, rsp)
              ELSE ble_gattc_find_inc_svcs_rx_read_rsp(s1, proc, rsp)
    IN IF proc = NULL THEN s1
       ELSE ble_gattc_process_status(s2, proc, s2.rv)

ble_gattc_rx_read_blob_rsp(S, conn_handle, cid, rsp) ==
    LET s0 == Ev(S, <<"call", "ble_gattc_rx_read_blob_rsp">>)
        s1 == ble_gattc_extract_first_by_conn_cid_op(s0, conn_handle, cid,
                  BLE_GATT_OP_READ_LONG)
        proc == First(s1)
        s2 == ble_gattc_read_long_rx_read_rsp(s1, proc, rsp)
    IN IF proc = NULL THEN s1
       ELSE ble_gattc_process_status(s2, proc, s2.rv)

\* ble_gattc_rx_prep_entries and ble_gattc_rx_exec_entries
RxWriteOps == {BLE_GATT_OP_WRITE_LONG, BLE_GATT_OP_WRITE_RELIABLE}

ble_gattc_rx_prep_write_rsp(S, conn_handle, cid, rsp) ==
    LET s0 == Ev(S, <<"call", "ble_gattc_rx_prep_write_rsp">>)
        s1 == ble_gattc_extract_with_rx_entry(s0, conn_handle, cid, RxWriteOps)
        proc == First(s1)
        s2 == IF s1.proc[proc].op = BLE_GATT_OP_WRITE_RELIABLE
              THEN ble_gattc_write_reliable_rx_prep(s1, proc, rsp)
              ELSE ble_gattc_write_long_rx_prep(s1, proc, rsp)
    IN IF proc = NULL THEN s1
       ELSE ble_gattc_process_status(s2, proc, s2.rv)

ble_gattc_rx_exec_write_rsp(S, conn_handle, cid, status) ==
    LET s0 == Ev(S, <<"call", "ble_gattc_rx_exec_write_rsp">>)
        s1 == ble_gattc_extract_with_rx_entry(s0, conn_handle, cid, RxWriteOps)
        proc == First(s1)
        s2 == IF s1.proc[proc].op = BLE_GATT_OP_WRITE_RELIABLE
              THEN ble_gattc_write_reliable_rx_exec(s1, proc, status)
              ELSE ble_gattc_write_long_rx_exec(s1, proc, status)
    IN IF proc = NULL THEN s1
       ELSE ble_gattc_process_status(s2, proc, s2.rv)

\* The queue conn->att_tx_q that is drained afterwards is not modelled.
ble_gattc_connection_broken(S, conn_handle) ==
    LET s0 == Ev(S, <<"call", "ble_gattc_connection_broken">>)
        s1 == ble_gattc_fail_procs(s0, conn_handle, BLE_GATT_OP_NONE,
                                   "ENOTCONN")
    IN ble_hs_unlock(Ev(ble_hs_lock(s1), <<"find", NULL>>))

ble_gattc_rx_find_info_idata(S, conn_handle, cid, idata) ==
    LET s0 == Ev(S, <<"call", "ble_gattc_rx_find_info_idata">>)
        s1 == ble_gattc_extract_first_by_conn_cid_op(
                  s0, conn_handle, cid, BLE_GATT_OP_DISC_ALL_DSCS)
        proc == First(s1)
        s2 == ble_gattc_disc_all_dscs_rx_idata(s1, proc, idata)
    IN IF proc = NULL THEN s1
       ELSE ble_gattc_process_status(s2, proc, s2.rv)

ble_gattc_rx_find_info_complete(S, conn_handle, cid, status) ==
    LET s0 == Ev(S, <<"call", "ble_gattc_rx_find_info_complete">>)
        s1 == ble_gattc_extract_first_by_conn_cid_op(
                  s0, conn_handle, cid, BLE_GATT_OP_DISC_ALL_DSCS)
        proc == First(s1)
        s2 == ble_gattc_disc_all_dscs_rx_complete(s1, proc, status)
    IN IF proc = NULL THEN s1
       ELSE ble_gattc_process_status(s2, proc, s2.rv)

(***************************************************************************)
(* Initiators (application task).                                          *)
(***************************************************************************)
\* Bookkeeping: record p counts as started once its initiator returned 0.
Started(S, p, rc) ==
    IF S.fault = "none" /\ rc = "OK" THEN [S EXCEPT !.live = @ \cup {p}]
    ELSE S

ble_gattc_exchange_mtu(S, conn_handle) ==
    LET s0 == Ev(S, <<"call", "ble_gattc_exchange_mtu">>)
        s1 == ble_gattc_proc_alloc(s0)
        proc == s1.rv
        s2 == [s1 EXCEPT !.proc[proc].op = BLE_GATT_OP_MTU,
                         !.proc[proc].conn_handle = conn_handle,
                         !.proc[proc].cid = BLE_L2CAP_CID_ATT]
        s3 == ble_gattc_mtu_tx(s2, proc)
        rc == s3.rv
    IN IF proc = NULL
       THEN [ble_gattc_process_status(s1, NULL, "ENOMEM") EXCEPT
                 !.rv = "ENOMEM"]
       ELSE [Started(ble_gattc_process_status(s3, proc, rc), proc, rc) EXCEPT
                 !.rv = rc]

\* ble_gattc_disc_all_svcs up to the call of ble_gattc_disc_all_svcs_tx.
\* With preemption protection the record is appended to temp_proc_list, and
\* the removal from it on the failure path runs for a null proc as well.
disc_all_svcs_begin(S, conn_handle) ==
    LET s0 == Ev(S, <<"call", "ble_gattc_disc_all_svcs">>)
        s1 == ble_gattc_proc_alloc(s0)
        proc == s1.rv
        s2 == ble_gattc_proc_prepare(s1, proc, conn_handle,
                                     BLE_GATT_OP_DISC_ALL_SVCS)
        s3 == [s2 EXCEPT !.proc[proc].prev_handle = 0]
        s4 == IF S.pp
              THEN ble_hs_unlock(Ev(STAILQ_INSERT_TAIL(ble_hs_lock(s3),
                                                       "temp", proc),
                                    <<"pend", proc>>))
              ELSE s3
        n1 == IF S.pp
              THEN ble_hs_unlock(Ev(STAILQ_REMOVE(ble_hs_lock(s1), "temp",
                                                  NULL),
                                    <<"unpend", NULL>>))
              ELSE s1
    IN IF proc = NULL
       THEN [ble_gattc_process_status(n1, NULL, "ENOMEM") EXCEPT
                 !.rv = "ENOMEM"]
       ELSE [s4 EXCEPT !.ini = proc, !.rv = "none"]

\* A faulty rest of ble_gattc_disc_all_svcs that treats BLE_HS_ENOMEM of the
\* first request as a stall; it is the alternative that C8 has to tell
\* apart.
disc_all_svcs_end_stalls(S) ==
    LET proc == S.ini
        s0 == [S EXCEPT !.ini = NULL]
        s1 == ble_gattc_disc_all_svcs_tx(s0, proc)
        s2 == ble_gattc_process_resume_status(s1, proc, s1.rv)
        rc == s2.rv
    IN [Started(ble_gattc_process_status(s2, proc, rc), proc, rc) EXCEPT
            !.rv = rc]

\* The rest of ble_gattc_disc_all_svcs, from the transmission on.
disc_all_svcs_end(S) ==
    LET proc == S.ini
        s0 == [S EXCEPT !.ini = NULL]
        s1 == ble_gattc_disc_all_svcs_tx(s0, proc)
        rc == s1.rv
        s2 == IF rc # "OK" /\ S.pp
              THEN ble_hs_unlock(Ev(STAILQ_REMOVE(ble_hs_lock(s1), "temp",
                                                  proc),
                                    <<"unpend", proc>>))
              ELSE s1
    IN IF proc = Freed THEN Fault(s0, "use_after_free")
       ELSE [Started(ble_gattc_process_status(s2, proc, rc), proc, rc) EXCEPT
                 !.rv = rc]

ble_gattc_disc_all_svcs(S, conn_handle) ==
    LET s1 == disc_all_svcs_begin(S, conn_handle)
    IN IF s1.ini = NULL THEN s1 ELSE disc_all_svcs_end(s1)

ble_gattc_write_long(S, conn_handle, attr_handle, offset, om_len) ==
    LET s0 == Ev(S, <<"call", "ble_gattc_write_long">>)
        s1 == ble_gattc_proc_alloc(s0)
        proc == s1.rv
        s2 == ble_gattc_proc_prepare(s1, proc, conn_handle,
                                     BLE_GATT_OP_WRITE_LONG)
        s3 == [s2 EXCEPT !.proc[proc].handle = attr_handle,
                         !.proc[proc].offset = offset,
                         !.proc[proc].om_len = om_len]
        s4 == IF offset > om_len THEN [s3 EXCEPT !.rv = "ATT_INVALID_OFFSET"]
              ELSE ble_gattc_write_long_tx(s3, proc)
        rc == s4.rv
    IN IF proc = NULL
       THEN [ble_gattc_process_status(s1, NULL, "ENOMEM") EXCEPT
                 !.rv = "ENOMEM"]
       ELSE [Started(ble_gattc_process_status(s4, proc, rc), proc, rc) EXCEPT
                 !.rv = rc]

\* attrs: the handle and the length of the value of each attribute, at
\* most BLE_GATT_WRITE_MAX_ATTRS of them.
ble_gattc_write_reliable(S, conn_handle, attrs) ==
    LET s0 == Ev(S, <<"call", "ble_gattc_write_reliable">>)
        s1 == ble_gattc_proc_alloc(s0)
        proc == s1.rv
        s2 == ble_gattc_proc_prepare(s1, proc, conn_handle,
                                     BLE_GATT_OP_WRITE_RELIABLE)
        s3 == [s2 EXCEPT !.proc[proc].num_attrs = Len(attrs),
                         !.proc[proc].cur_attr = 0,
                         !.proc[proc].attrs =
                             [i \in 1..Len(attrs) |->
                                 [handle |-> attrs[i].handle, offset |-> 0,
                                  om_len |-> attrs[i].om_len]]]
        s4 == ble_gattc_write_reliable_tx(s3, proc)
        rc == s4.rv
    IN IF proc = NULL
       THEN [ble_gattc_process_status(s1, NULL, "ENOMEM") EXCEPT
                 !.rv = "ENOMEM"]
       ELSE [Started(ble_gattc_process_status(s4, proc, rc), proc, rc) EXCEPT
                 !.rv = rc]

\* proc->find_inc_svcs.prev_handle = start_handle - 1, for a start handle
\* of at least 1.
ble_gattc_find_inc_svcs(S, conn_handle, start_handle, end_handle) ==
    LET s0 == Ev(S, <<"call", "ble_gattc_find_inc_svcs">>)
        s1 == ble_gattc_proc_alloc(s0)
        proc == s1.rv
        s2 == ble_gattc_proc_prepare(s1, proc, conn_handle,
                                     BLE_GATT_OP_FIND_INC_SVCS)
        s3 == [s2 EXCEPT !.proc[proc].prev_handle = start_handle - 1,
                         !.proc[proc].end_handle = end_handle]
        s4 == ble_gattc_find_inc_svcs_tx(s3, proc)
        rc == s4.rv
    IN IF proc = NULL
       THEN [ble_gattc_process_status(s1, NULL, "ENOMEM") EXCEPT
                 !.rv = "ENOMEM"]
       ELSE [Started(ble_gattc_process_status(s4, proc, rc), proc, rc) EXCEPT
                 !.rv = rc]

ble_gattc_read_long(S, conn_handle, handle, offset) ==
    LET s0 == Ev(S, <<"call", "ble_gattc_read_long">>)
        s1 == ble_gattc_proc_alloc(s0)
        proc == s1.rv
        s2 == ble_gattc_proc_prepare(s1, proc, conn_handle,
                                     BLE_GATT_OP_READ_LONG)
        s3 == [s2 EXCEPT !.proc[proc].handle = handle,
                         !.proc[proc].offset = offset]
        s4 == ble_gattc_read_long_tx(s3, proc)
        rc == s4.rv
    IN IF proc = NULL
       THEN [ble_gattc_process_status(s1, NULL, "ENOMEM") EXCEPT
                 !.rv = "ENOMEM"]
       ELSE [Started(ble_gattc_process_status(s4, proc, rc), proc, rc) EXCEPT
                 !.rv = rc]

\* proc->disc_all_chrs.prev_handle = start_handle - 1, for a start handle
\* of at least 1.
ble_gattc_disc_all_chrs(S, conn_handle, start_handle, end_handle) ==
    LET s0 == Ev(S, <<"call", "ble_gattc_disc_all_chrs">>)
        s1 == ble_gattc_proc_alloc(s0)
        proc == s1.rv
        s2 == ble_gattc_proc_prepare(s1, proc, conn_handle,
                                     BLE_GATT_OP_DISC_ALL_CHRS)
        s3 == [s2 EXCEPT !.proc[proc].prev_handle = start_handle - 1,
                         !.proc[proc].end_handle = end_handle]
        s4 == ble_gattc_disc_all_chrs_tx(s3, proc)
        rc == s4.rv
    IN IF proc = NULL
       THEN [ble_gattc_process_status(s1, NULL, "ENOMEM") EXCEPT
                 !.rv = "ENOMEM"]
       ELSE [Started(ble_gattc_process_status(s4, proc, rc), proc, rc) EXCEPT
                 !.rv = rc]

\* start_handle is the handle of the characteristic value, kept in
\* chr_val_handle and in prev_handle.
ble_gattc_disc_all_dscs(S, conn_handle, start_handle, end_handle) ==
    LET s0 == Ev(S, <<"call", "ble_gattc_disc_all_dscs">>)
        s1 == ble_gattc_proc_alloc(s0)
        proc == s1.rv
        s2 == ble_gattc_proc_prepare(s1, proc, conn_handle,
                                     BLE_GATT_OP_DISC_ALL_DSCS)
        s3 == [s2 EXCEPT !.proc[proc].handle = start_handle,
                         !.proc[proc].prev_handle = start_handle,
                         !.proc[proc].end_handle = end_handle]
        s4 == ble_gattc_disc_all_dscs_tx(s3, proc)
        rc == s4.rv
    IN IF proc = NULL
       THEN [ble_gattc_process_status(s1, NULL, "ENOMEM") EXCEPT
                 !.rv = "ENOMEM"]
       ELSE [Started(ble_gattc_process_status(s4, proc, rc), proc, rc) EXCEPT
                 !.rv = rc]

(***************************************************************************)
(* $auto pair: the build with BLE_GATTC_AUTO_PAIR.                         *)
(***************************************************************************)
\* The ATT error codes that ask for a more secure link, and one that does
\* not.
AttCodes == {"INSUFFICIENT_ENC", "INSUFFICIENT_AUTHEN", "INVALID_HANDLE"}

\* ble_gattc_rx_err as built with BLE_GATTC_AUTO_PAIR.  `enc' is
\* desc.sec_state.encrypted as ble_gap_conn_find left it, sec_rc the return
\* code of ble_gap_security_initiate.  proc->error is written before proc
\* is compared with NULL.
ble_gattc_rx_err_auto_pair(S, conn_handle, cid, handle, status, enc, sec_rc) ==
    LET s0 == Ev(S, <<"call", "ble_gattc_rx_err">>)
        s1 == ble_gattc_extract_first_by_conn_cid_op(s0, conn_handle, cid,
                                                     BLE_GATT_OP_NONE)
        proc == First(s1)
        s2 == [s1 EXCEPT !.proc[proc].error =
                             [status |-> status, att_handle |-> handle]]
        secure == /\ ~enc
                  /\ status \in {"INSUFFICIENT_ENC", "INSUFFICIENT_AUTHEN"}
        s3 == IF secure
              THEN Ev(s2, <<"call", "ble_gap_security_initiate">>)
              ELSE s2
    IN IF s1.fault # "none" THEN s1
       ELSE IF proc = NULL THEN Fault(s1, "null_deref")
       ELSE IF secure /\ sec_rc = 0
       THEN Ev(STAILQ_INSERT_TAIL(s3, "cached", proc), <<"park", proc>>)
       ELSE ble_gattc_proc_free(
                ErrDispatch(s3, proc, BLE_HS_ERR_ATT(status), handle), proc)

\* The switch of ble_gattc_recover_gatt_proc for enc_status == 0.  The
\* case of BLE_GATT_OP_WRITE_LONG has no break and runs on into the case of
\* BLE_GATT_OP_WRITE_RELIABLE, which reads proc->write_reliable.num_attrs
\* of a write-long record: the bytes behind the write_long member, zero
\* since the memset of ble_gattc_proc_alloc.  The return codes of the
\* initiators are dropped.
Reissue(S, p) ==
    LET rec == S.proc[p]
        attrs == [i \in 1..rec.num_attrs |->
                     [handle |-> rec.attrs[i].handle,
                      om_len |-> rec.attrs[i].om_len]]
    IN CASE rec.op = BLE_GATT_OP_READ_LONG ->
                ble_gattc_read_long(S, rec.conn_handle, rec.handle,
                                    rec.offset)
         [] rec.op = BLE_GATT_OP_WRITE_LONG ->
                ble_gattc_write_reliable(
                    ble_gattc_write_long(S, rec.conn_handle, rec.handle,
                                         rec.offset, rec.om_len),
                    rec.conn_handle, attrs)
         [] rec.op = BLE_GATT_OP_WRITE_RELIABLE ->
                ble_gattc_write_reliable(S, rec.conn_handle, attrs)
         [] OTHER -> S

\* The loop of ble_gattc_recover_gatt_proc over ble_gattc_cached_procs.
RECURSIVE RecoverLoop(_, _, _, _, _, _)
RecoverLoop(S, conn_handle, enc_status, prev, p, fuel) ==
    IF S.fault # "none" \/ p = NULL THEN S
    ELSE IF fuel = 0 THEN Fault(S, "hang")
    ELSE LET next == S.proc[p].next
             rec == S.proc[p]
             s1 == IF enc_status = 0 THEN Reissue(S, p)
                   ELSE ErrDispatch(S, p, BLE_HS_ERR_ATT(rec.error.status),
                              rec.error.att_handle)
             s2 == IF prev = NULL THEN STAILQ_REMOVE_HEAD(s1, "cached")
                   ELSE STAILQ_REMOVE_AFTER(s1, "cached", prev)
             s3 == ble_gattc_proc_free(Ev(s2, <<"unpark", p>>), p)
         IN IF rec.conn_handle = conn_handle
            THEN RecoverLoop(s3, conn_handle, enc_status, prev, next,
                             fuel - 1)
            ELSE RecoverLoop(S, conn_handle, enc_status, p, next, fuel - 1)

\* A faulty ble_gattc_recover_gatt_proc that fails the parked procedures
\* with the error of the first one; it is the alternative that C18 has to
\* tell apart.
ble_gattc_recover_gatt_proc_first_error(S, conn_handle, enc_status) ==
    LET s0 == Ev(S, <<"call", "ble_gattc_recover_gatt_proc">>)
        f == s0.lst["cached"].first
        s1 == [s0 EXCEPT !.proc =
                  [p \in Procs |->
                      [s0.proc[p] EXCEPT !.error =
                          IF f = NULL THEN @ ELSE s0.proc[f].error]]]
    IN RecoverLoop(s1, conn_handle, enc_status, NULL,
                   s1.lst["cached"].first, ExtractFuel)

ble_gattc_recover_gatt_proc(S, conn_handle, enc_status) ==
    LET s0 == Ev(S, <<"call", "ble_gattc_recover_gatt_proc">>)
    IN RecoverLoop(s0, conn_handle, enc_status, NULL,
                   s0.lst["cached"].first, ExtractFuel)

(***************************************************************************)
(* State machine.                                                          *)
(***************************************************************************)
VARIABLES proc, lst, pool, ble_gattc_resume_at, now, ini, live, fault, pp

vars == <<proc, lst, pool, ble_gattc_resume_at, now, ini, live, fault, pp>>

\* The machine state at the entry of a run: the variables, an empty event
\* list, and the inputs of the run (the return codes of the ATT client and
\* the return value of the application's data callback).
St(txin, cbrc) ==
    [proc |-> proc, lst |-> lst, pool |-> pool,
     ble_gattc_resume_at |-> ble_gattc_resume_at, now |-> now, ini |-> ini,
     live |-> live, trace |-> <<>>, fault |-> fault, rv |-> "none", pp |-> pp,
     cb |-> [p \in Procs |-> 0], crit |-> [k |-> "none"],
     txin |-> txin, cbrc |-> cbrc]

AllTx(rc) == [p \in Procs |-> rc]

\* ble_gattc_procs, head first.
Table == Walk(proc, lst["procs"].first, {})

\* The pool as os_mempool_init leaves it: the blocks in address order.
InitProc ==
    [p \in Procs |->
        [ZeroProc EXCEPT !.next = IF p < MAX_PROCS THEN p + 1 ELSE NULL]]

\* The blocks the program still has a pointer to.
Reachable(S) ==
    ListSet(S, "procs") \cup ListSet(S, "temp") \cup ListSet(S, "cached")
        \cup Range(FreeList(S)) \cup {S.ini}

\* A block the program has no pointer to is never read again: of its
\* contents only the connection and the op code are kept, for bookkeeping.
Lost(rec) ==
    [ZeroProc EXCEPT !.conn_handle = rec.conn_handle, !.op = rec.op]

\* The variables after run S; the local list of the run is gone.  A run
\* that faults stops the program: nothing of its memory is looked at again,
\* and the variables keep only the fault.
Do(S) ==
    IF S.fault = "none"
    THEN /\ proc' = [p \in Procs |-> IF p \in Reachable(S) THEN S.proc[p]
                                     ELSE Lost(S.proc[p])]
         /\ lst' = [S.lst EXCEPT !["dst"] = EmptyList]
         /\ pool' = S.pool
         /\ ble_gattc_resume_at' = S.ble_gattc_resume_at
         /\ now' = S.now
         /\ ini' = S.ini
         /\ live' = S.live
         /\ fault' = "none"
         /\ pp' = S.pp
    ELSE /\ proc' = InitProc
         /\ lst' = [l \in ListNames |-> EmptyList]
         /\ pool' = NULL
         /\ ble_gattc_resume_at' = 0
         /\ now' = StartTick
         /\ ini' = NULL
         /\ live' = {}
         /\ fault' = S.fault
         /\ pp' = S.pp

\* os_mempool_init threads the blocks in address order; ble_gattc_init
\* initialises the lists.
InitCommon ==
    /\ proc = InitProc
    /\ lst = [l \in ListNames |-> EmptyList]
    /\ pool = 1
    /\ ble_gattc_resume_at = 0
    /\ now = StartTick
    /\ ini = NULL
    /\ live = {}
    /\ fault = "none"

Init == InitCommon /\ pp = FALSE

InitPP == InitCommon /\ pp = TRUE

(***************************************************************************)
(* Runs: an entry point applied to the current variables and its inputs.   *)
(***************************************************************************)
Uuids == {"0x1800", "0x1801"}

Adata ==
    {a \in [value_ok : BOOLEAN, att_handle : 1..MaxHandle,
            end_group_handle : 1..MaxHandle, uuid : Uuids] :
        /\ a.att_handle <= a.end_group_handle
        /\ a.value_ok \/ a.uuid = "0x1800"}

PrepRsp ==
    [status : {"OK", "EBADDATA"}, handle : 1..MaxHandle,
     offset : 0..MaxPayload, len : 0..ChunkMax, match : BOOLEAN]

RxStatus == {"OK", "EBADDATA"}

\* A prepare-write response and the return code of the request that follows
\* it; no request follows a response that is in error or does not match.
PrepIn ==
    {x \in PrepRsp \X TxRcs :
        x[2] = "OK" \/ (x[1].status = "OK" /\ x[1].match)}

\* An entry of a read-by-type response to the included-service scan.
IncAdata ==
    {a \in [att_handle : 1..MaxAttr, value_len : {"NO_UUID", "UUID", "BAD"},
             uuid_ok : BOOLEAN, inc_start : 0..1, inc_end : {1}] :
        a.uuid_ok \/ a.value_len = "UUID"}

\* An entry of a read-by-type response to the discovery of characteristics:
\* any handle the peer chooses, and whether the declaration parses.
ChrAdata == [att_handle : 0..MaxHandle, value_ok : BOOLEAN]

\* An entry of a find-information response: any handle the peer chooses.
Idata == [attr_handle : 0..MaxHandle]

\* The handle ranges an application asks for: 1 <= start <= end.
HandleRanges == {r \in (1..MaxHandle) \X (1..MaxHandle) : r[1] <= r[2]}

\* The 128-bit UUIDs a read response can carry.
Uuid128s == {"uuid128_a", "uuid128_b"}

\* A read or read-blob response: its status, the length of its value,
\* whether the value parses as a 128-bit UUID, and the UUID it parses to.
ReadRsp ==
    {r \in [status : RxStatus, len : 0..ReadMax, uuid_ok : BOOLEAN,
            uuid : Uuid128s] :
        /\ r.status = "OK" \/ (r.len = 0 /\ r.uuid_ok)
        /\ r.uuid = "uuid128_a"
               \/ (r.status = "OK" /\ r.uuid_ok /\ r.len = ReadMax)}

ExchangeMtuRun(c, rc) == ble_gattc_exchange_mtu(St(AllTx(rc), 0), c)

DiscAllSvcsRun(c, rc) == ble_gattc_disc_all_svcs(St(AllTx(rc), 0), c)

DiscAllSvcsBeginRun(c) == disc_all_svcs_begin(St(AllTx("OK"), 0), c)

DiscAllSvcsEndRun(rc) == disc_all_svcs_end(St(AllTx(rc), 0))

\* The attribute written is handle 1 and the payload has MaxPayload bytes.
WriteLongRun(c, off, rc) ==
    ble_gattc_write_long(St(AllTx(rc), 0), c, 1, off, MaxPayload)

RxMtuRun(c, status, chan_mtu) ==
    ble_gattc_rx_mtu(St(AllTx("OK"), 0), c, status, chan_mtu)

RxReadGroupTypeAdataRun(c, adata, cbrc) ==
    ble_gattc_rx_read_group_type_adata(St(AllTx("OK"), cbrc), c,
                                       BLE_L2CAP_CID_ATT, adata)

RxReadGroupTypeCompleteRun(c, status, rc) ==
    ble_gattc_rx_read_group_type_complete(St(AllTx(rc), 0), c,
                                          BLE_L2CAP_CID_ATT, status)

RxPrepWriteRspRun(c, rsp, rc) ==
    ble_gattc_rx_prep_write_rsp(St(AllTx(rc), 0), c, BLE_L2CAP_CID_ATT, rsp)

RxExecWriteRspRun(c, status) ==
    ble_gattc_rx_exec_write_rsp(St(AllTx("OK"), 0), c, BLE_L2CAP_CID_ATT,
                                status)

RxErrRun(c, status, handle) ==
    ble_gattc_rx_err(St(AllTx("OK"), 0), c, BLE_L2CAP_CID_ATT, handle, status)

\* n attributes, the handles 1..n, each with a value of MaxPayload bytes.
WriteReliableRun(c, n, rc) ==
    ble_gattc_write_reliable(St(AllTx(rc), 0), c,
        [i \in 1..n |-> [handle |-> i, om_len |-> MaxPayload]])

\* The scan covers the handles 1..MaxAttr.
FindIncSvcsRun(c, rc) ==
    ble_gattc_find_inc_svcs(St(AllTx(rc), 0), c, 1, MaxAttr)

\* The attribute read is handle 1.
ReadLongRun(c, off, rc) == ble_gattc_read_long(St(AllTx(rc), 0), c, 1, off)

RxReadTypeAdataRun(c, adata, cbrc) ==
    ble_gattc_rx_read_type_adata(St(AllTx("OK"), cbrc), c, BLE_L2CAP_CID_ATT,
                                 adata)

RxReadTypeCompleteRun(c, status, rc) ==
    ble_gattc_rx_read_type_complete(St(AllTx(rc), 0), c, BLE_L2CAP_CID_ATT,
                                    status)

DiscAllChrsRun(c, start, end, rc) ==
    ble_gattc_disc_all_chrs(St(AllTx(rc), 0), c, start, end)

DiscAllDscsRun(c, start, end, rc) ==
    ble_gattc_disc_all_dscs(St(AllTx(rc), 0), c, start, end)

RxFindInfoIdataRun(c, idata, cbrc) ==
    ble_gattc_rx_find_info_idata(St(AllTx("OK"), cbrc), c, BLE_L2CAP_CID_ATT,
                                 idata)

RxFindInfoCompleteRun(c, status, rc) ==
    ble_gattc_rx_find_info_complete(St(AllTx(rc), 0), c, BLE_L2CAP_CID_ATT,
                                    status)

RxReadRspRun(c, rsp, rc, cbrc) ==
    ble_gattc_rx_read_rsp(St(AllTx(rc), cbrc), c, BLE_L2CAP_CID_ATT, rsp)

RxReadBlobRspRun(c, rsp, rc, cbrc) ==
    ble_gattc_rx_read_blob_rsp(St(AllTx(rc), cbrc), c, BLE_L2CAP_CID_ATT, rsp)

TimerRun(txin) == ble_gattc_timer(St(txin, 0))

RxErrAutoPairRun(c, status, handle, encrypted, sec_rc) ==
    ble_gattc_rx_err_auto_pair(St(AllTx("OK"), 0), c, BLE_L2CAP_CID_ATT,
                               handle, status, encrypted, sec_rc)

RecoverGattProcRun(c, enc_status, rc) ==
    ble_gattc_recover_gatt_proc(St(AllTx(rc), 0), c, enc_status)

ConnectionBrokenRun(c) == ble_gattc_connection_broken(St(AllTx("OK"), 0), c)

\* A response for which ble_gattc_procs holds no record (proc == NULL) changes
\* nothing; the rx actions are enabled when a record is there.
Pending(c, ops) ==
    \E p \in Range(Table) :
        /\ proc[p].conn_handle = c
        /\ proc[p].cid = BLE_L2CAP_CID_ATT
        /\ proc[p].op \in ops

AllOps == 0..BLE_GATT_OP_NONE

(***************************************************************************)
(* Actions.                                                                *)
(***************************************************************************)
ExchangeMtu ==
    /\ fault = "none"
    /\ \E c \in Conns, rc \in TxRcs : Do(ExchangeMtuRun(c, rc))

DiscAllSvcs ==
    /\ fault = "none"
    /\ \E c \in Conns, rc \in TxRcs : Do(DiscAllSvcsRun(c, rc))

DiscAllSvcsBegin ==
    /\ fault = "none"
    /\ ini = NULL
    /\ \E c \in Conns : Do(DiscAllSvcsBeginRun(c))

DiscAllSvcsEnd ==
    /\ fault = "none"
    /\ ini # NULL
    /\ \E rc \in TxRcs : Do(DiscAllSvcsEndRun(rc))

WriteLong ==
    /\ fault = "none"
    /\ \E c \in Conns, off \in {0, 1, MaxPayload + 1}, rc \in TxRcs :
           Do(WriteLongRun(c, off, rc))

RxMtu ==
    /\ fault = "none"
    /\ \E c \in Conns, status \in RxStatus, chan_mtu \in 1..MaxMtu :
           Pending(c, {BLE_GATT_OP_MTU}) /\ Do(RxMtuRun(c, status, chan_mtu))

RxReadGroupTypeAdata ==
    /\ fault = "none"
    /\ \E c \in Conns, adata \in Adata, cbrc \in {0, 1} :
           /\ Pending(c, {BLE_GATT_OP_DISC_ALL_SVCS})
           /\ Do(RxReadGroupTypeAdataRun(c, adata, cbrc))

RxReadGroupTypeComplete ==
    /\ fault = "none"
    /\ \E c \in Conns, status \in RxStatus, rc \in TxRcs :
           /\ Pending(c, {BLE_GATT_OP_DISC_ALL_SVCS})
           /\ Do(RxReadGroupTypeCompleteRun(c, status, rc))

RxPrepWriteRsp ==
    /\ fault = "none"
    /\ \E c \in Conns, x \in PrepIn :
           Pending(c, RxWriteOps) /\ Do(RxPrepWriteRspRun(c, x[1], x[2]))

RxExecWriteRsp ==
    /\ fault = "none"
    /\ \E c \in Conns, status \in RxStatus :
           Pending(c, RxWriteOps) /\ Do(RxExecWriteRspRun(c, status))

WriteReliable ==
    /\ fault = "none"
    /\ \E c \in Conns, n \in 1..MaxWrites, rc \in TxRcs :
           Do(WriteReliableRun(c, n, rc))

FindIncSvcs ==
    /\ fault = "none"
    /\ \E c \in Conns, rc \in TxRcs : Do(FindIncSvcsRun(c, rc))

ReadLong ==
    /\ fault = "none"
    /\ \E c \in Conns, off \in {0, 1}, rc \in TxRcs :
           Do(ReadLongRun(c, off, rc))

RxReadTypeAdata ==
    /\ fault = "none"
    /\ \E c \in Conns, adata \in IncAdata, cbrc \in {0, 1} :
           /\ Pending(c, RxReadTypeOps)
           /\ Do(RxReadTypeAdataRun(c, adata, cbrc))

RxReadTypeComplete ==
    /\ fault = "none"
    /\ \E c \in Conns, status \in RxStatus, rc \in TxRcs :
           /\ Pending(c, RxReadTypeOps)
           /\ Do(RxReadTypeCompleteRun(c, status, rc))

RxReadRsp ==
    /\ fault = "none"
    /\ \E c \in Conns, rsp \in ReadRsp, rc \in TxRcs, cbrc \in {0, 1} :
           /\ Pending(c, RxReadRspOps)
           /\ Do(RxReadRspRun(c, rsp, rc, cbrc))

RxReadBlobRsp ==
    /\ fault = "none"
    /\ \E c \in Conns, rsp \in ReadRsp, rc \in TxRcs, cbrc \in {0, 1} :
           /\ Pending(c, {BLE_GATT_OP_READ_LONG})
           /\ Do(RxReadBlobRspRun(c, rsp, rc, cbrc))

DiscAllChrs ==
    /\ fault = "none"
    /\ \E c \in Conns, r \in HandleRanges, rc \in TxRcs :
           Do(DiscAllChrsRun(c, r[1], r[2], rc))

DiscAllDscs ==
    /\ fault = "none"
    /\ \E c \in Conns, r \in HandleRanges, rc \in TxRcs :
           Do(DiscAllDscsRun(c, r[1], r[2], rc))

RxChrAdata ==
    /\ fault = "none"
    /\ \E c \in Conns, adata \in ChrAdata, cbrc \in {0, 1} :
           /\ Pending(c, RxReadTypeOps)
           /\ Do(RxReadTypeAdataRun(c, adata, cbrc))

RxFindInfoIdata ==
    /\ fault = "none"
    /\ \E c \in Conns, idata \in Idata, cbrc \in {0, 1} :
           /\ Pending(c, {BLE_GATT_OP_DISC_ALL_DSCS})
           /\ Do(RxFindInfoIdataRun(c, idata, cbrc))

RxFindInfoComplete ==
    /\ fault = "none"
    /\ \E c \in Conns, status \in RxStatus, rc \in TxRcs :
           /\ Pending(c, {BLE_GATT_OP_DISC_ALL_DSCS})
           /\ Do(RxFindInfoCompleteRun(c, status, rc))

RxErr ==
    /\ fault = "none"
    /\ \E c \in Conns, status \in AttErrs, handle \in 1..MaxHandle :
           Pending(c, AllOps) /\ Do(RxErrRun(c, status, handle))

RxErrAutoPair ==
    /\ fault = "none"
    /\ \E c \in Conns, status \in AttCodes, handle \in 1..MaxHandle,
          encrypted \in BOOLEAN, sec_rc \in {0, 1} :
           /\ Pending(c, AllOps)
           /\ Do(RxErrAutoPairRun(c, status, handle, encrypted, sec_rc))

\* enc_status is 0 when the link is encrypted now, non-zero when the
\* pairing failed.
RecoverGattProc ==
    /\ fault = "none"
    /\ \E c \in Conns, enc_status \in {0, 1}, rc \in TxRcs :
           Do(RecoverGattProcRun(c, enc_status, rc))

Timer ==
    /\ fault = "none"
    /\ \E txin \in [Procs -> TxRcs] : Do(TimerRun(txin))

ConnectionBroken ==
    /\ fault = "none"
    /\ \E c \in Conns : Do(ConnectionBrokenRun(c))

\* The clock advances.  The host timer is armed for the earliest deadline
\* of the table and for the resume time, and runs at most MaxLate ticks
\* after it.
Tick ==
    /\ fault = "none"
    /\ \A p \in Range(Table) :
           TickDiff(proc[p].exp_os_ticks, now) > 0 - MaxLate
    /\ \/ ble_gattc_resume_at = 0
       \/ TickDiff(ble_gattc_resume_at, now) > 0 - MaxLate
    /\ TickDiff(now, StartTick) < MaxTicks
    /\ now' = TickAdd(now, 1)
    /\ UNCHANGED <<proc, lst, pool, ble_gattc_resume_at, ini, live, fault, pp>>

Next ==
    \/ ExchangeMtu
    \/ DiscAllSvcs
    \/ RxMtu
    \/ RxReadGroupTypeAdata
    \/ RxReadGroupTypeComplete
    \/ RxErr
    \/ Timer
    \/ ConnectionBroken
    \/ Tick

NextWL ==
    \/ WriteLong
    \/ RxPrepWriteRsp
    \/ RxExecWriteRsp
    \/ RxErr
    \/ Timer
    \/ ConnectionBroken
    \/ Tick

NextPP ==
    \/ DiscAllSvcsBegin
    \/ DiscAllSvcsEnd
    \/ RxReadGroupTypeComplete
    \/ Timer
    \/ ConnectionBroken
    \/ Tick

\* The streaming procedures that read: the included-service scan and the
\* long read, driven by the responses of the peer.
NextST ==
    \/ FindIncSvcs
    \/ ReadLong
    \/ RxReadTypeAdata
    \/ RxReadTypeComplete
    \/ RxReadRsp
    \/ RxReadBlobRsp
    \/ RxErr
    \/ ConnectionBroken

\* The discoveries over a handle range: all characteristics and all
\* descriptors, driven by the responses of the peer.
NextDC ==
    \/ DiscAllChrs
    \/ DiscAllDscs
    \/ RxChrAdata
    \/ RxReadTypeComplete
    \/ RxFindInfoIdata
    \/ RxFindInfoComplete
    \/ RxErr
    \/ ConnectionBroken

\* The queued writes: the long write and the reliable write, driven by
\* the responses of the peer.
NextWR ==
    \/ WriteLong
    \/ WriteReliable
    \/ RxPrepWriteRsp
    \/ RxExecWriteRsp
    \/ RxErr
    \/ ConnectionBroken

\* The build with BLE_GATTC_AUTO_PAIR: procedures, error responses and the
\* outcome of the pairing.
NextAP ==
    \/ WriteLong
    \/ ReadLong
    \/ DiscAllSvcs
    \/ WriteReliable
    \/ RxErrAutoPair
    \/ RecoverGattProc

Spec == Init /\ [][Next]_vars

SpecAP == Init /\ [][NextAP]_vars

SpecWR == Init /\ [][NextWR]_vars

SpecST == Init /\ [][NextST]_vars

SpecDC == Init /\ [][NextDC]_vars

SpecWL == Init /\ [][NextWL]_vars

SpecPP == InitPP /\ [][NextPP]_vars

(***************************************************************************)
(* Runs that can start in the current state, per specification.            *)
(***************************************************************************)
\* P holds of every run an action of Spec can commit in this state.
ForRuns(P(_)) ==
    fault = "none" =>
        /\ \A c \in Conns, rc \in TxRcs : P(ExchangeMtuRun(c, rc))
        /\ \A c \in Conns, rc \in TxRcs : P(DiscAllSvcsRun(c, rc))
        /\ \A c \in Conns, status \in RxStatus, chan_mtu \in 1..MaxMtu :
               Pending(c, {BLE_GATT_OP_MTU}) =>
                   P(RxMtuRun(c, status, chan_mtu))
        /\ \A c \in Conns, adata \in Adata, cbrc \in {0, 1} :
               Pending(c, {BLE_GATT_OP_DISC_ALL_SVCS}) =>
                   P(RxReadGroupTypeAdataRun(c, adata, cbrc))
        /\ \A c \in Conns, status \in RxStatus, rc \in TxRcs :
               Pending(c, {BLE_GATT_OP_DISC_ALL_SVCS}) =>
                   P(RxReadGroupTypeCompleteRun(c, status, rc))
        /\ \A c \in Conns, status \in AttErrs, handle \in 1..MaxHandle :
               Pending(c, AllOps) => P(RxErrRun(c, status, handle))
        /\ \A txin \in [Procs -> TxRcs] : P(TimerRun(txin))
        /\ \A c \in Conns : P(ConnectionBrokenRun(c))

\* P holds of every run an action of SpecWL can commit in this state.
ForRunsWL(P(_)) ==
    fault = "none" =>
        /\ \A c \in Conns, off \in {0, 1, MaxPayload + 1}, rc \in TxRcs :
               P(WriteLongRun(c, off, rc))
        /\ \A c \in Conns, x \in PrepIn :
               Pending(c, RxWriteOps) => P(RxPrepWriteRspRun(c, x[1], x[2]))
        /\ \A c \in Conns, status \in RxStatus :
               Pending(c, RxWriteOps) => P(RxExecWriteRspRun(c, status))
        /\ \A c \in Conns, status \in AttErrs, handle \in 1..MaxHandle :
               Pending(c, AllOps) => P(RxErrRun(c, status, handle))
        /\ \A txin \in [Procs -> TxRcs] : P(TimerRun(txin))
        /\ \A c \in Conns : P(ConnectionBrokenRun(c))

\* P holds of every run an action of SpecPP can commit in this state.
ForRunsPP(P(_)) ==
    fault = "none" =>
        /\ \A c \in Conns : ini = NULL => P(DiscAllSvcsBeginRun(c))
        /\ \A rc \in TxRcs : ini # NULL => P(DiscAllSvcsEndRun(rc))
        /\ \A c \in Conns, status \in RxStatus, rc \in TxRcs :
               Pending(c, {BLE_GATT_OP_DISC_ALL_SVCS}) =>
                   P(RxReadGroupTypeCompleteRun(c, status, rc))
        /\ \A txin \in [Procs -> TxRcs] : P(TimerRun(txin))
        /\ \A c \in Conns : P(ConnectionBrokenRun(c))

\* P holds of every run an action of SpecST can commit in this state.
ForRunsST(P(_)) ==
    fault = "none" =>
        /\ \A c \in Conns, rc \in TxRcs : P(FindIncSvcsRun(c, rc))
        /\ \A c \in Conns, off \in {0, 1}, rc \in TxRcs :
               P(ReadLongRun(c, off, rc))
        /\ \A c \in Conns, adata \in IncAdata, cbrc \in {0, 1} :
               Pending(c, RxReadTypeOps) =>
                   P(RxReadTypeAdataRun(c, adata, cbrc))
        /\ \A c \in Conns, status \in RxStatus, rc \in TxRcs :
               Pending(c, RxReadTypeOps) =>
                   P(RxReadTypeCompleteRun(c, status, rc))
        /\ \A c \in Conns, rsp \in ReadRsp, rc \in TxRcs, cbrc \in {0, 1} :
               Pending(c, RxReadRspOps) => P(RxReadRspRun(c, rsp, rc, cbrc))
        /\ \A c \in Conns, rsp \in ReadRsp, rc \in TxRcs, cbrc \in {0, 1} :
               Pending(c, {BLE_GATT_OP_READ_LONG}) =>
                   P(RxReadBlobRspRun(c, rsp, rc, cbrc))
        /\ \A c \in Conns, status \in AttErrs, handle \in 1..MaxHandle :
               Pending(c, AllOps) => P(RxErrRun(c, status, handle))
        /\ \A c \in Conns : P(ConnectionBrokenRun(c))

\* P holds of every run an action of SpecWR can commit in this state.
ForRunsWR(P(_)) ==
    fault = "none" =>
        /\ \A c \in Conns, off \in {0, 1, MaxPayload + 1}, rc \in TxRcs :
               P(WriteLongRun(c, off, rc))
        /\ \A c \in Conns, n \in 1..MaxWrites, rc \in TxRcs :
               P(WriteReliableRun(c, n, rc))
        /\ \A c \in Conns, x \in PrepIn :
               Pending(c, RxWriteOps) => P(RxPrepWriteRspRun(c, x[1], x[2]))
        /\ \A c \in Conns, status \in RxStatus :
               Pending(c, RxWriteOps) => P(RxExecWriteRspRun(c, status))
        /\ \A c \in Conns, status \in AttErrs, handle \in 1..MaxHandle :
               Pending(c, AllOps) => P(RxErrRun(c, status, handle))
        /\ \A c \in Conns : P(ConnectionBrokenRun(c))

\* P holds of every run an action of SpecDC can commit in this state.
ForRunsDC(P(_)) ==
    fault = "none" =>
        /\ \A c \in Conns, r \in HandleRanges, rc \in TxRcs :
               P(DiscAllChrsRun(c, r[1], r[2], rc))
        /\ \A c \in Conns, r \in HandleRanges, rc \in TxRcs :
               P(DiscAllDscsRun(c, r[1], r[2], rc))
        /\ \A c \in Conns, adata \in ChrAdata, cbrc \in {0, 1} :
               Pending(c, RxReadTypeOps) =>
                   P(RxReadTypeAdataRun(c, adata, cbrc))
        /\ \A c \in Conns, status \in RxStatus, rc \in TxRcs :
               Pending(c, RxReadTypeOps) =>
                   P(RxReadTypeCompleteRun(c, status, rc))
        /\ \A c \in Conns, idata \in Idata, cbrc \in {0, 1} :
               Pending(c, {BLE_GATT_OP_DISC_ALL_DSCS}) =>
                   P(RxFindInfoIdataRun(c, idata, cbrc))
        /\ \A c \in Conns, status \in RxStatus, rc \in TxRcs :
               Pending(c, {BLE_GATT_OP_DISC_ALL_DSCS}) =>
                   P(RxFindInfoCompleteRun(c, status, rc))
        /\ \A c \in Conns, status \in AttErrs, handle \in 1..MaxHandle :
               Pending(c, AllOps) => P(RxErrRun(c, status, handle))
        /\ \A c \in Conns : P(ConnectionBrokenRun(c))

\* The events of kind k in a trace, in order.
Events(tr, k) == SelectSeq(tr, LAMBDA e : e[1] = k)

\* The events of kind k about record p.
EventsOf(tr, k, p) == SelectSeq(tr, LAMBDA e : e[1] = k /\ e[2] = p)

\* Whether the host lock is held when event i of the trace happens.
Held(tr, i) ==
    Cardinality({j \in 1..(i - 1) : tr[j][1] = "lock"}) >
        Cardinality({j \in 1..(i - 1) : tr[j][1] = "unlock"})

(***************************************************************************)
(* C1                                                                      *)
(***************************************************************************)
\* In run S every started record that is returned to the pool has had
\* exactly one terminal callback.
OneTerminalCallback(S) ==
    /\ S.fault = "none"
    /\ \A i \in 1..Len(S.trace) :
           (S.trace[i][1] = "free" /\ S.trace[i][3]) => S.trace[i][4] = 1

\* C1: every procedure record taken from the pool gets exactly one terminal
\* callback, never zero and never two, before it is returned to the pool.
\* Stated for the records whose initiator succeeded, in every run of the
\* write-long engine.
C1_ExactlyOneTerminalCallback == ForRunsWL(OneTerminalCallback)

(***************************************************************************)
(* C2                                                                      *)
(***************************************************************************)
\* C2: after every operation returns, the records in ble_gattc_procs are
\* exactly the procedures that were started successfully and have not yet
\* completed, failed, timed out or been killed by a disconnect.
C2_TableIsStartedMinusEnded == Range(Table) = live

(***************************************************************************)
(* C3                                                                      *)
(***************************************************************************)
\* C3: with preemption protection on, however the initiator (append to
\* temp_proc_list, transmit, insert or remove and free) interleaves with the
\* engine's sweeps, a record is never lost, is never twice in the table, is
\* freed at most once and never while a list still links it.  The faults
\* are the double free, the free of a linked record, the use of a freed
\* record, the walk through a null link and the walk that never ends on a
\* table that links a record twice.
C3_PreemptionProtectKeepsRecords ==
    /\ fault = "none"
    /\ ~Cyclic(proc, lst["procs"].first, {})
    /\ live \subseteq Range(Table)

(***************************************************************************)
(* C4                                                                      *)
(***************************************************************************)
\* In the trace of run S only events of the kinds in `allowed' happen
\* while the host lock is held, and the lock is free when the run ends.
LockedOnlyIn(S, allowed) ==
    /\ \A i \in 1..Len(S.trace) :
           Held(S.trace, i) => S.trace[i][1] \in allowed \cup {"unlock"}
    /\ S.fault = "none" => ~Held(S.trace, Len(S.trace) + 1)

\* The operations on ble_gattc_procs and on temp_proc_list.
TableOps == {"ins", "ext", "merge", "pend", "unpend"}

TouchesInserted(e) ==
    CASE e[1] = "cb" -> e[4]
      [] e[1] = "wr" -> e[4]
      [] e[1] = "tx" -> e[5]
      [] e[1] = "resume" -> e[3]
      [] OTHER -> FALSE

NeverTouchesInserted(S) ==
    \A i \in 1..Len(S.trace) : ~TouchesInserted(S.trace[i])

\* C5: whenever the engine runs a handler or a callback on a record, or
\* writes one of its fields (prev_handle, offset, flags, the deadline), the
\* record is not in ble_gattc_procs.  Stated for the build with preemption
\* protection, where the initiator and the engine's sweeps interleave.
C5_MutatedOnlyOutsideTable == ForRunsPP(NeverTouchesInserted)

\* The same discipline in the build without preemption protection, where
\* an initiator runs to its end before the engine sweeps.
MutatedOnlyOutsideTableNoPP == ForRuns(NeverTouchesInserted)

(***************************************************************************)
(* C6                                                                      *)
(***************************************************************************)
\* The procedures in flight on connection c: started and not yet ended.
InFlight(c) == {p \in live : proc[p].conn_handle = c}

\* ble_gattc_connection_broken(c), run in the current state, calls each
\* record of `procs' exactly once, with ENOTCONN, frees it, and leaves no
\* record of connection c in ble_gattc_procs.
BrokenFailsEach(c, procs) ==
    LET S == ConnectionBrokenRun(c)
    IN /\ S.fault = "none"
       /\ \A p \in procs :
              /\ Len(EventsOf(S.trace, "cb", p)) = 1
              /\ EventsOf(S.trace, "cb", p)[1][3] = "ENOTCONN"
              /\ Len(EventsOf(S.trace, "free", p)) = 1
       /\ \A p \in ListSet(S, "procs") : S.proc[p].conn_handle # c

\* C6: ble_gattc_connection_broken(conn) gives exactly one NotConnected
\* callback to every procedure in flight on conn, stalled or not, frees
\* each of them and leaves no record of conn in the table.
C6_BrokenFailsEveryInFlight ==
    fault = "none" => \A c \in Conns : BrokenFailsEach(c, InFlight(c))

\* The same for the records of conn that ble_gattc_procs holds.
BrokenFailsEveryInTable ==
    fault = "none" =>
        \A c \in Conns :
            BrokenFailsEach(c, {p \in Range(Table) : proc[p].conn_handle = c})

(***************************************************************************)
(* C7                                                                      *)
(***************************************************************************)
\* The records of ble_gattc_procs whose deadline has passed at tick `now'.
Expired == {p \in Range(Table) : TickDiff(proc[p].exp_os_ticks, now) <= 0}

\* The position in trace tr of the only event of kind k about record p, or
\* 0 when there is none or more than one.
Pos(tr, k, p) ==
    LET is == {i \in 1..Len(tr) : tr[i][1] = k /\ tr[i][2] = p}
    IN IF Cardinality(is) = 1 THEN CHOOSE i \in is : TRUE ELSE 0

\* In run S record p is timed out: taken from the table, called once, with
\* ETIMEOUT (and MTU 0 when it is an MTU exchange), then its connection is
\* terminated with REM_USER_CONN_TERM, then it is freed.
TimedOut(S, p) ==
    LET tr == S.trace
        e == Pos(tr, "ext", p)
        c == Pos(tr, "cb", p)
        d == Pos(tr, "term", p)
        f == Pos(tr, "free", p)
    IN /\ 0 < e /\ e < c /\ c < d /\ d < f
       /\ tr[c][3] = "ETIMEOUT"
       /\ ~tr[c][4]
       /\ tr[d] = <<"term", p, "REM_USER_CONN_TERM", proc[p].conn_handle>>
       /\ proc[p].op = BLE_GATT_OP_MTU =>
              /\ tr[c - 1] = <<"mtu", p, 0>>
       /\ p \notin ListSet(S, "procs")

\* In run S record p is left alone: no callback, and still in the table.
LeftAlone(S, p) ==
    /\ Len(EventsOf(S.trace, "cb", p)) = 0
    /\ Len(EventsOf(S.trace, "free", p)) = 0
    /\ p \in ListSet(S, "procs")

StartedStalled(S, p) ==
    /\ S.fault = "none"
    /\ S.rv = "OK"
    /\ p \in ListSet(S, "procs")
    /\ Stalled(S.proc[p])
    /\ Len(Events(S.trace, "cb")) = 0

\* Run S of an initiator, started with a free block p at the head of the
\* pool, returned BLE_HS_ENOMEM, gave the block back to the pool, left the
\* table and the resume time as they were and called nobody.
FailedNoMem(S, p) ==
    /\ S.fault = "none"
    /\ S.rv = "ENOMEM"
    /\ Len(EventsOf(S.trace, "free", p)) = 1
    /\ S.pool = p
    /\ ListSeq(S, "procs") = Table
    /\ S.ble_gattc_resume_at = ble_gattc_resume_at
    /\ Len(Events(S.trace, "cb")) = 0
    /\ Len(Events(S.trace, "ins")) = 0

\* Run S of a response handler left record p, which was in the table, in
\* the table again, STALLED, with the resume time armed and nobody called.
StalledOnFollowUp(S, p) ==
    /\ S.fault = "none"
    /\ p \in ListSet(S, "procs")
    /\ Stalled(S.proc[p])
    /\ S.ble_gattc_resume_at # 0
    /\ Len(Events(S.trace, "cb")) = 0

\* The record the response of connection c is for: the first one of the
\* table with that connection and operation.
FirstPending(c, op) ==
    LET is == {i \in 1..Len(Table) :
                  /\ proc[Table[i]].conn_handle = c
                  /\ proc[Table[i]].op = op}
    IN Table[CHOOSE i \in is : \A j \in is : i <= j]

ResumeDue ==
    /\ ble_gattc_resume_at # 0
    /\ TickDiff(ble_gattc_resume_at, now) <= 0

\* The STALLED records that ble_gattc_timer finds in the table once it has
\* timed out the expired ones, in table order.
StalledSeq ==
    SelectSeq(Table, LAMBDA p : Stalled(proc[p]) /\ p \notin Expired)

\* Record p after its resume hook ran in run S: back in the table with
\* STALLED cleared, or back in the table still STALLED with the resume
\* time armed again, or ended with one callback and freed.
Resumed(S, p) ==
    \/ /\ p \in ListSet(S, "procs")
       /\ ~Stalled(S.proc[p])
       /\ Len(EventsOf(S.trace, "cb", p)) = 0
    \/ /\ p \in ListSet(S, "procs")
       /\ Stalled(S.proc[p])
       /\ S.ble_gattc_resume_at # 0
       /\ Len(EventsOf(S.trace, "cb", p)) = 0
    \/ /\ p \notin ListSet(S, "procs")
       /\ Len(EventsOf(S.trace, "cb", p)) = 1
       /\ EventsOf(S.trace, "cb", p)[1][3] # "OK"
       /\ Len(EventsOf(S.trace, "free", p)) = 1

\* Run S of ble_gattc_timer resumed exactly the records of seq, each once,
\* in that order, with one of the three results for each.
ResumesInOrder(S, seq) ==
    LET ev == Events(S.trace, "resume")
    IN /\ S.fault = "none"
       /\ [i \in 1..Len(ev) |-> ev[i][2]] = seq
       /\ \A i \in 1..Len(seq) : Resumed(S, seq[i])

\* C9: when the resume time is due and N >= 1 records of the table are
\* STALLED, ble_gattc_timer runs the resume hook of every one of them
\* exactly once, in table order, and afterwards each is in the table with
\* STALLED cleared, in the table STALLED with the resume time armed again,
\* or ended with one error callback and freed.
C9_ResumesEveryStalledInOrder ==
    (fault = "none" /\ ResumeDue /\ Len(StalledSeq) >= 1) =>
        \A txin \in [Procs -> TxRcs] :
            ResumesInOrder(TimerRun(txin), StalledSeq)

(***************************************************************************)
(* C10                                                                     *)
(***************************************************************************)
\* Run S leaves the deadline of every record alone that it leaves STALLED
\* in the table: exp_os_ticks is what it was before the run and the run
\* has no store to it.
StallKeepsDeadline(S) ==
    \A p \in Range(Table) :
        (p \in ListSet(S, "procs") /\ Stalled(S.proc[p])) =>
            /\ S.proc[p].exp_os_ticks = proc[p].exp_os_ticks
            /\ \A i \in 1..Len(S.trace) :
                   ~(/\ S.trace[i][1] = "wr"
                     /\ S.trace[i][2] = p
                     /\ S.trace[i][3] = "exp_os_ticks")

FirstOf(c, ops) ==
    LET is == {i \in 1..Len(Table) :
                  /\ proc[Table[i]].conn_handle = c
                  /\ proc[Table[i]].cid = BLE_L2CAP_CID_ATT
                  /\ proc[Table[i]].op \in ops}
    IN Table[CHOOSE i \in is : \A j \in is : i <= j]

\* Run S ended record p with one callback, of status BLE_HS_EBADDATA, and
\* freed it.
EndsInBadData(S, p) ==
    /\ S.fault = "none"
    /\ Len(EventsOf(S.trace, "cb", p)) = 1
    /\ EventsOf(S.trace, "cb", p)[1][3] = "EBADDATA"
    /\ Len(EventsOf(S.trace, "free", p)) = 1
    /\ p \notin ListSet(S, "procs")

\* Run S of a response to the long read p has not ended p and has moved
\* its offset forward.
OffsetAdvances(S, p) ==
    p \in ListSet(S, "procs") => S.proc[p].offset > proc[p].offset

\* C11: in a streaming procedure the handles or offsets of the successive
\* data callbacks are strictly increasing, and an entry whose handle is not
\* greater than the last one seen gets the terminal BLE_HS_EBADDATA
\* callback, ends the procedure and is followed by no data callback.
\* Stated for the included-service scan (the entries it does not skip
\* while it resolves a 128-bit UUID) and the long read.
C11_StreamsStrictlyIncrease ==
    fault = "none" =>
        /\ \A c \in Conns, adata \in IncAdata, cbrc \in {0, 1} :
               (/\ Pending(c, RxReadTypeOps)
                /\ proc[FirstOf(c, RxReadTypeOps)].cur_start = 0) =>
                   LET p == FirstOf(c, RxReadTypeOps)
                       S == RxReadTypeAdataRun(c, adata, cbrc)
                   IN IF adata.att_handle <= proc[p].prev_handle
                      THEN EndsInBadData(S, p)
                      ELSE p \in ListSet(S, "procs") =>
                               S.proc[p].prev_handle = adata.att_handle
        /\ \A c \in Conns, rsp \in ReadRsp, rc \in TxRcs, cbrc \in {0, 1} :
               /\ (/\ Pending(c, RxReadRspOps)
                   /\ proc[FirstOf(c, RxReadRspOps)].op
                          = BLE_GATT_OP_READ_LONG) =>
                      OffsetAdvances(RxReadRspRun(c, rsp, rc, cbrc),
                                     FirstOf(c, RxReadRspOps))
               /\ Pending(c, {BLE_GATT_OP_READ_LONG}) =>
                      OffsetAdvances(RxReadBlobRspRun(c, rsp, rc, cbrc),
                                     FirstOf(c, {BLE_GATT_OP_READ_LONG}))

\* The part of C11 about the included-service scan alone.
IncSvcsRegressionEndsInBadData ==
    fault = "none" =>
        \A c \in Conns, adata \in IncAdata, cbrc \in {0, 1} :
            (/\ Pending(c, RxReadTypeOps)
             /\ proc[FirstOf(c, RxReadTypeOps)].cur_start = 0
             /\ adata.att_handle
                    <= proc[FirstOf(c, RxReadTypeOps)].prev_handle) =>
                EndsInBadData(RxReadTypeAdataRun(c, adata, cbrc),
                              FirstOf(c, RxReadTypeOps))

\* The same rule for the discovery of all services: holds under Spec.
SvcsRegressionEndsInBadData ==
    fault = "none" =>
        \A c \in Conns, adata \in Adata, cbrc \in {0, 1} :
            (/\ Pending(c, {BLE_GATT_OP_DISC_ALL_SVCS})
             /\ adata.end_group_handle
                    <= proc[FirstOf(c, {BLE_GATT_OP_DISC_ALL_SVCS})].prev_handle)
                =>
                EndsInBadData(RxReadGroupTypeAdataRun(c, adata, cbrc),
                              FirstOf(c, {BLE_GATT_OP_DISC_ALL_SVCS}))

(***************************************************************************)
(* C12                                                                     *)
(***************************************************************************)
\* rsp is a prepare-write response to the request record p is waiting for
\* (its handle, offset and length are the ones sent) whose bytes differ
\* from the bytes sent.
EchoDiffers(p, rsp) ==
    LET rec == proc[p]
    IN /\ rsp.status = "OK"
       /\ ~rsp.match
       /\ rsp.len = rec.length
       /\ IF rec.op = BLE_GATT_OP_WRITE_RELIABLE
          THEN /\ rec.cur_attr < rec.num_attrs
               /\ rsp.handle = rec.attrs[rec.cur_attr + 1].handle
               /\ rsp.offset = rec.attrs[rec.cur_attr + 1].offset
          ELSE /\ rec.offset < rec.om_len
               /\ rsp.handle = rec.handle
               /\ rsp.offset = rec.offset
               /\ rsp.offset + rsp.len <= rec.om_len

\* In run S an Execute Write (cancel) is sent for record p, then the
\* application is called, once, with BLE_HS_EBADDATA, and p is freed.
CancelThenBadData(S, p) ==
    LET tr == S.trace
        c == Pos(tr, "cb", p)
    IN /\ S.fault = "none"
       /\ c > 0
       /\ tr[c][3] = "EBADDATA"
       /\ \E i \in 1..(c - 1) :
              tr[i][1] = "tx" /\ tr[i][2] = p /\ tr[i][3] = "exec_cancel"
       /\ Len(EventsOf(tr, "free", p)) = 1

\* C12: when a prepare-write response to a long write or a reliable write
\* echoes bytes that differ from the bytes sent, an Execute Write (cancel)
\* is sent before the terminal callback, and the application gets exactly
\* one callback, with BLE_HS_EBADDATA.
C12_CancelBeforeBadData ==
    fault = "none" =>
        \A c \in Conns, rsp \in PrepRsp :
            (/\ Pending(c, RxWriteOps)
             /\ EchoDiffers(FirstOf(c, RxWriteOps), rsp)) =>
                CancelThenBadData(RxPrepWriteRspRun(c, rsp, "OK"),
                                  FirstOf(c, RxWriteOps))

\* The part of C12 about the long write alone: holds under SpecWR.
WriteLongCancelsBeforeBadData ==
    fault = "none" =>
        \A c \in Conns, rsp \in PrepRsp :
            (/\ Pending(c, RxWriteOps)
             /\ proc[FirstOf(c, RxWriteOps)].op = BLE_GATT_OP_WRITE_LONG
             /\ EchoDiffers(FirstOf(c, RxWriteOps), rsp)) =>
                CancelThenBadData(RxPrepWriteRspRun(c, rsp, "OK"),
                                  FirstOf(c, RxWriteOps))

(***************************************************************************)
(* C13                                                                     *)
(***************************************************************************)
\* The MTU exchanges of connection c in the table.
MtuProcs(c) ==
    {p \in Range(Table) :
        /\ proc[p].conn_handle = c
        /\ proc[p].cid = BLE_L2CAP_CID_ATT
        /\ proc[p].op = BLE_GATT_OP_MTU}

\* Run S of ble_gattc_rx_mtu took record p from the table, called the
\* application once, for p, with the status and the MTU of the response,
\* and freed p.
MtuCompletes(S, p, status, chan_mtu) ==
    LET tr == S.trace
        e == Pos(tr, "ext", p)
        c == Pos(tr, "cb", p)
        f == Pos(tr, "free", p)
    IN /\ S.fault = "none"
       /\ 0 < e /\ e < c /\ c < f
       /\ Len(Events(tr, "cb")) = 1
       /\ tr[c][3] = status
       /\ tr[c - 1] = <<"mtu", p, chan_mtu>>
       /\ p \notin ListSet(S, "procs")
       /\ p \in Range(FreeList(S))

\* Run S of ble_gattc_rx_mtu found no record: nobody is called, nothing
\* is freed and the table is as before the run.
MtuIgnored(S, before) ==
    /\ S.fault = "none"
    /\ Len(Events(S.trace, "cb")) = 0
    /\ Len(Events(S.trace, "free")) = 0
    /\ ListSeq(S, "procs") = ListSeq(before, "procs")

\* C13: the first MTU response for a connection takes the record of its
\* MTU exchange from the table, calls the application exactly once, with
\* the MTU the response carries, and frees the record; an MTU response
\* that comes after it finds no record and calls nobody.
C13_MtuResponseCompletes ==
    fault = "none" =>
        \A c \in Conns, status \in RxStatus, chan_mtu \in 1..MaxMtu :
            Pending(c, {BLE_GATT_OP_MTU}) =>
                LET p == FirstOf(c, {BLE_GATT_OP_MTU})
                    S == RxMtuRun(c, status, chan_mtu)
                    later == [S EXCEPT !.trace = <<>>]
                IN /\ MtuCompletes(S, p, status, chan_mtu)
                   /\ MtuProcs(c) = {p} =>
                          \A m \in 1..MaxMtu :
                              MtuIgnored(ble_gattc_rx_mtu(later, c, "OK", m),
                                         later)

\* An MTU exchange is in the table and its response carries an MTU other
\* than the smallest one.
C13_Witness ==
    /\ fault = "none"
    /\ \E c \in Conns :
           /\ Cardinality(MtuProcs(c)) = 1
           /\ Len(Events(RxMtuRun(c, "OK", MaxMtu).trace, "cb")) = 1

(***************************************************************************)
(* C14                                                                     *)
(***************************************************************************)
\* Run S called the application once for record p, with status Ok and the
\* service (start, end, uuid) of the entry.
EntryIsService(S, p, adata) ==
    LET tr == S.trace
        c == Pos(tr, "cb", p)
    IN /\ S.fault = "none"
       /\ Len(Events(tr, "cb")) = 1
       /\ c > 1
       /\ tr[c][3] = "OK"
       /\ tr[c - 1] = <<"svc", p, <<adata.att_handle, adata.end_group_handle,
                                    adata.uuid>>>>

\* Run S called the application once for record p, with the terminal
\* status, and freed p; the table has no record p afterwards.
EndsWith(S, p, status) ==
    LET tr == S.trace
        c == Pos(tr, "cb", p)
        f == Pos(tr, "free", p)
    IN /\ S.fault = "none"
       /\ Len(Events(tr, "cb")) = 1
       /\ 0 < c /\ c < f
       /\ tr[c][3] = status
       /\ p \notin ListSet(S, "procs")
       /\ p \in Range(FreeList(S))

\* Run S handed one request for the handles from start on to the
\* transport, for record p.
FollowsUpAt(S, p, start) ==
    LET txs == EventsOf(S.trace, "tx", p)
    IN /\ S.fault = "none"
       /\ Len(txs) = 1
       /\ txs[1][3] = "read_group_type"
       /\ txs[1][6] = <<start, MaxHandle>>

\* The completion of a response and the peer's ATTR_NOT_FOUND, as C14
\* states them.
SvcsCompletion ==
    /\ \A c \in Conns, rc \in TxRcs :
           Pending(c, {BLE_GATT_OP_DISC_ALL_SVCS}) =>
               LET p == FirstOf(c, {BLE_GATT_OP_DISC_ALL_SVCS})
                   S == RxReadGroupTypeCompleteRun(c, "OK", rc)
               IN IF proc[p].prev_handle = MaxHandle
                  THEN Len(EventsOf(S.trace, "tx", p)) = 0
                       /\ EndsWith(S, p, "EDONE")
                  ELSE /\ FollowsUpAt(S, p, proc[p].prev_handle + 1)
                       /\ rc = "OK" =>
                              /\ Len(Events(S.trace, "cb")) = 0
                              /\ InTable(S, p)
    /\ \A c \in Conns :
           (/\ Pending(c, AllOps)
            /\ proc[FirstOf(c, AllOps)].op = BLE_GATT_OP_DISC_ALL_SVCS) =>
               EndsWith(RxErrRun(c, "ATTR_NOT_FOUND", 1),
                        FirstOf(c, AllOps), "EDONE")

\* C14 as stated: every entry of a response gives one Ok callback with
\* the service (start, end, uuid); the completion of a response sends the
\* request for prev_handle + 1 unless prev_handle is the last handle; the
\* procedure ends with one Done callback at the last handle or at
\* ATTR_NOT_FOUND and is then out of the table.
C14_EveryEntryIsAService ==
    fault = "none" =>
        /\ \A c \in Conns, adata \in Adata, cbrc \in {0, 1} :
               Pending(c, {BLE_GATT_OP_DISC_ALL_SVCS}) =>
                   EntryIsService(RxReadGroupTypeAdataRun(c, adata, cbrc),
                       FirstOf(c, {BLE_GATT_OP_DISC_ALL_SVCS}), adata)
        /\ SvcsCompletion

\* C14, amended: an entry with a 2- or 16-byte UUID and an end handle
\* above prev_handle gives one Ok callback with the service (start, end,
\* uuid), and the procedure goes on if the callback returns 0 and is freed
\* if it does not; any other entry ends the procedure with one BadData
\* callback.  The completion of a response hands the request for
\* prev_handle + 1 to the transport unless prev_handle is the last handle;
\* the procedure ends with one Done callback at the last handle or at
\* ATTR_NOT_FOUND and is then out of the table.
C14_GoodEntryIsAService ==
    fault = "none" =>
        /\ \A c \in Conns, adata \in Adata, cbrc \in {0, 1} :
               Pending(c, {BLE_GATT_OP_DISC_ALL_SVCS}) =>
                   LET p == FirstOf(c, {BLE_GATT_OP_DISC_ALL_SVCS})
                       S == RxReadGroupTypeAdataRun(c, adata, cbrc)
                   IN IF /\ adata.value_ok
                         /\ adata.end_group_handle > proc[p].prev_handle
                      THEN /\ EntryIsService(S, p, adata)
                           /\ InTable(S, p) <=> cbrc = 0
                           /\ cbrc = 0 =>
                                  S.proc[p].prev_handle =
                                      adata.end_group_handle
                           /\ p \in Range(FreeList(S)) <=> cbrc # 0
                      ELSE EndsWith(S, p, "EBADDATA")
        /\ SvcsCompletion

\* Scenario S1: one service that ends below the last handle has been
\* delivered, the follow-up request is out, and the peer answers it with
\* ATTR_NOT_FOUND.
C14_Witness ==
    /\ fault = "none"
    /\ \E c \in Conns :
           /\ Pending(c, AllOps)
           /\ LET p == FirstOf(c, AllOps)
              IN /\ proc[p].op = BLE_GATT_OP_DISC_ALL_SVCS
                 /\ proc[p].prev_handle > 0
                 /\ proc[p].prev_handle < MaxHandle
                 /\ Len(Events(RxErrRun(c, "ATTR_NOT_FOUND", 1).trace,
                               "cb")) = 1

(***************************************************************************)
(* C15                                                                     *)
(***************************************************************************)
\* Run S of a read or read-blob response with a chunk of len bytes, for a
\* read-long record p that was at offset off: the chunk is delivered with
\* offset off; after a chunk of at least MTU - 1 bytes a Read Blob for
\* offset off + len goes out and no Done is delivered; after a shorter
\* chunk Done is delivered and p is freed.
ChunkHandled(S, p, off, len) ==
    LET tr == S.trace
        cbs == EventsOf(tr, "cb", p)
        attrs == EventsOf(tr, "attr", p)
        txs == EventsOf(tr, "tx", p)
    IN /\ S.fault = "none"
       /\ Len(attrs) >= 1 /\ attrs[1][3] = <<off, len>>
       /\ Len(cbs) >= 1 /\ cbs[1][3] = "OK"
       /\ IF len >= ReadMax
          THEN /\ Len(cbs) = 1
               /\ Len(txs) = 1
               /\ txs[1][3] = "read_blob"
               /\ txs[1][6] = <<proc[p].handle, off + len>>
               /\ InTable(S, p)
               /\ S.proc[p].offset = off + len
          ELSE /\ Len(cbs) = 2
               /\ cbs[2][3] = "EDONE"
               /\ Len(txs) = 0
               /\ p \notin ListSet(S, "procs")
               /\ p \in Range(FreeList(S))

\* The responses a read-long record of connection c can get, with the
\* connection up, the transport accepting the next request and the
\* application returning 0: every one of them satisfies P(run, record,
\* offset before, length of the chunk).
ForChunks(P(_, _, _, _)) ==
    fault = "none" =>
        \A c \in Conns, rsp \in ReadRsp :
            rsp.status = "OK" =>
                /\ Pending(c, {BLE_GATT_OP_READ_LONG}) =>
                       LET p == FirstOf(c, {BLE_GATT_OP_READ_LONG})
                       IN P(RxReadBlobRspRun(c, rsp, "OK", 0), p,
                            proc[p].offset, rsp.len)
                /\ (/\ Pending(c, RxReadRspOps)
                    /\ proc[FirstOf(c, RxReadRspOps)].op =
                           BLE_GATT_OP_READ_LONG) =>
                       LET p == FirstOf(c, RxReadRspOps)
                       IN P(RxReadRspRun(c, rsp, "OK", 0), p,
                            proc[p].offset, rsp.len)

\* C15: each chunk of a read long is delivered with the offset the chunks
\* before it add up to (the initial offset plus their lengths); after a
\* chunk of MTU - 1 bytes or more the engine sends Read Blob at the
\* advanced offset and delivers no Done; after the first shorter chunk it
\* delivers Done and terminates.
C15_ReadLongOffsetsAdd == ForChunks(ChunkHandled)

\* The same for the chunks that do not take the offset past the largest
\* value of uint16_t.
BelowWrap(S, p, off, len) == off + len < OffMod => ChunkHandled(S, p, off, len)

ReadLongOffsetsAddBelowWrap == ForChunks(BelowWrap)

(***************************************************************************)
(* C16                                                                     *)
(***************************************************************************)
\* What the Dispatcher matches a record by.
Key(p) == <<proc[p].conn_handle, proc[p].cid, proc[p].op>>

\* C16: the table never holds two records of the same connection handle,
\* CID and operation, so the first match of an extraction is the only one.
C16_OneRecordPerKey ==
    fault = "none" =>
        \A i, j \in 1..Len(Table) : Key(Table[i]) = Key(Table[j]) => i = j

\* What the extraction does when there are several matches: the record
\* taken for a response is the one that has been in the table longest,
\* and the other matches stay, in their order.
DispatcherTakesOldest ==
    fault = "none" =>
        \A c \in Conns :
            Pending(c, {BLE_GATT_OP_DISC_ALL_SVCS}) =>
                LET p == FirstOf(c, {BLE_GATT_OP_DISC_ALL_SVCS})
                    S == RxReadGroupTypeCompleteRun(c, "EBADDATA", "OK")
                IN /\ Pos(S.trace, "ext", p) > 0
                   /\ Len(Events(S.trace, "ext")) = 1
                   /\ ListSeq(S, "procs") =
                          SelectSeq(Table, LAMBDA q : q # p)

(***************************************************************************)
(* C17                                                                     *)
(***************************************************************************)
\* ble_gattc_cached_procs, head first.
Cached == Walk(proc, lst["cached"].first, {})

\* The procedures parked for connection c.
ParkedFor(c) == {p \in Range(Cached) : proc[p].conn_handle = c}

\* Record q of run S is the procedure of the parked record p, issued again.
SameProcedure(S, q, p) ==
    /\ S.proc[q].op = proc[p].op
    /\ S.proc[q].conn_handle = proc[p].conn_handle
    /\ S.proc[q].handle = proc[p].handle
    /\ S.proc[q].offset = proc[p].offset
    /\ S.proc[q].om_len = proc[p].om_len
    /\ S.proc[q].num_attrs = proc[p].num_attrs

\* Run S removed the parked records of connection c from the cached list
\* and freed them, and left the others parked.
Unparked(S, c) ==
    /\ S.fault = "none"
    /\ ListSeq(S, "cached") =
           SelectSeq(Cached, LAMBDA q : proc[q].conn_handle # c)
    /\ \A p \in ParkedFor(c) : Len(EventsOf(S.trace, "free", p)) >= 1

\* The statement of C17 for the states in which the procedures parked for
\* the connection are all of the kinds ops.
ReissuesEachOnce(ops) ==
    fault = "none" =>
        \A c \in Conns :
            (/\ ParkedFor(c) # {}
             /\ \A p \in ParkedFor(c) : proc[p].op \in ops
             /\ Len(Walk(proc, pool, {})) >= Cardinality(ParkedFor(c))) =>
                LET S == RecoverGattProcRun(c, 0, "OK")
                    ins == Events(S.trace, "ins")
                    calls == SelectSeq(Events(S.trace, "call"),
                                 LAMBDA e : e[2] # "ble_gattc_recover_gatt_proc")
                IN /\ Unparked(S, c)
                   /\ Len(calls) = Cardinality(ParkedFor(c))
                   /\ Len(ins) = Cardinality(ParkedFor(c))
                   /\ \A p \in ParkedFor(c) :
                          \E i \in 1..Len(ins) :
                              SameProcedure(S, ins[i][2], p)

\* C17: when the pairing succeeds, every procedure parked for the
\* connection is issued again exactly once, as a procedure of the same kind
\* with the same parameters, and its parked record is freed; the
\* procedures parked for other connections stay parked.  Read for a
\* transport that accepts the requests and a pool with a free record for
\* each procedure to issue.
C17_ReplayReissuesEachOnce == ReissuesEachOnce(AllOps)

\* The same for long reads and reliable writes only, and for long writes
\* only.
ReadsReissuedOnce ==
    ReissuesEachOnce({BLE_GATT_OP_READ_LONG, BLE_GATT_OP_WRITE_RELIABLE})

WriteLongReissuedOnce == ReissuesEachOnce({BLE_GATT_OP_WRITE_LONG})

\* The part of C17 that the code keeps: every parked record of the
\* connection leaves the cached list and is freed, the others stay.
ReplayUnparks ==
    fault = "none" =>
        \A c \in Conns, enc_status \in {0, 1}, rc \in TxRcs :
            Unparked(RecoverGattProcRun(c, enc_status, rc), c)

(***************************************************************************)
(* C18                                                                     *)
(***************************************************************************)
\* Run S called the application once for the parked record p, with the
\* error code and the handle kept in the record, and then freed p.
FailedWithParkedError(S, p) ==
    LET tr == S.trace
        c == Pos(tr, "cb", p)
        h == Pos(tr, "att_handle", p)
        f == Pos(tr, "free", p)
    IN /\ 0 < h /\ h < c /\ c < f
       /\ tr[c][3] = BLE_HS_ERR_ATT(proc[p].error.status)
       /\ tr[h][3] = proc[p].error.att_handle

\* C18: when the pairing fails, every procedure parked for the connection
\* gets exactly one error callback, with the ATT error code and the handle
\* of the error response that had it parked, and is then freed and off the
\* cached list.
C18_ReplayFailsEachOnce ==
    fault = "none" =>
        /\ \A c \in Conns, status \in AttCodes, handle \in 1..MaxHandle :
               Pending(c, AllOps) =>
                   LET p == FirstOf(c, AllOps)
                       S == RxErrAutoPairRun(c, status, handle, FALSE, 0)
                   IN p \in ListSet(S, "cached") =>
                          /\ S.proc[p].error =
                                 [status |-> status, att_handle |-> handle]
                          /\ Len(Events(S.trace, "cb")) = 0
        /\ \A c \in Conns, rc \in TxRcs :
               LET S == RecoverGattProcRun(c, 1, rc)
               IN /\ Unparked(S, c)
                  /\ Len(Events(S.trace, "cb")) = Cardinality(ParkedFor(c))
                  /\ \A p \in ParkedFor(c) : FailedWithParkedError(S, p)

\* Two procedures are parked for one connection, by error responses with
\* different codes and handles, and the pairing fails.
C18_Witness ==
    /\ fault = "none"
    /\ \E c \in Conns :
           /\ Cardinality(ParkedFor(c)) = 2
           /\ \A p, q \in ParkedFor(c) :
                  p # q => /\ proc[p].error.status # proc[q].error.status
                           /\ proc[p].error.att_handle #
                                  proc[q].error.att_handle
           /\ Len(Events(RecoverGattProcRun(c, 1, "OK").trace, "cb")) = 2

(***************************************************************************)
(* C19                                                                     *)
(***************************************************************************)
\* Run S of an initiator returned BLE_HS_ENOMEM, called nobody, sent
\* nothing and left the table, the pending list and the records as they
\* were.
Refused(S) ==
    /\ S.fault = "none"
    /\ S.rv = "ENOMEM"
    /\ Len(Events(S.trace, "cb")) = 0
    /\ Len(Events(S.trace, "tx")) = 0
    /\ ListSeq(S, "procs") = Table
    /\ ListSeq(S, "temp") = Walk(proc, lst["temp"].first, {})
    /\ S.proc = proc
    /\ S.pool = NULL

\* C19: with every record of the pool in use, each initiator returns
\* OutOfMemory, calls no callback, transmits nothing and leaves the table
\* and the pending list unchanged; and there are never more live records
\* than the pool has.
C19_ExhaustedPoolRefuses ==
    fault = "none" =>
        /\ Cardinality(live) <= MAX_PROCS
        /\ Cardinality(live) + Len(Walk(proc, pool, {})) <= MAX_PROCS
        /\ (pool = NULL /\ ini = NULL) =>
               \A c \in Conns, rc \in TxRcs :
                   /\ Refused(ExchangeMtuRun(c, rc))
                   /\ Refused(DiscAllSvcsRun(c, rc))
                   /\ Refused(WriteLongRun(c, 0, rc))
                   /\ Refused(WriteReliableRun(c, 1, rc))
                   /\ Refused(FindIncSvcsRun(c, rc))
                   /\ Refused(ReadLongRun(c, 0, rc))

(***************************************************************************)
(* C20                                                                     *)
(***************************************************************************)
\* What run S of ble_gattc_timer returned.
Returned(S) == Events(S.trace, "ticks")[1][2]

Least(s) == CHOOSE x \in s : \A y \in s : x <= y

\* The ticks from S.now to the earliest deadline of a record of the table
\* of S that has not passed, or to the resume clock of S if that is
\* earlier; BLE_HS_FOREVER if there is neither.
NextWake(S) ==
    LET ds == {TickDiff(S.proc[p].exp_os_ticks, S.now) :
                  p \in ListSet(S, "procs")}
    IN Least({d \in ds : d > 0}
             \cup {ble_gattc_ticks_until_resume(S), BLE_HS_FOREVER})

\* C20 as stated: ble_gattc_timer returns the minimum of the ticks to the
\* earliest deadline among the records it leaves in the table and the
\* ticks to the resume clock, and `forever' when there is neither.
C20_TimerReturnsNextWake ==
    fault = "none" =>
        \A txin \in [Procs -> TxRcs] :
            LET S == TimerRun(txin)
            IN S.fault = "none" => Returned(S) = NextWake(S)

\* C20, amended: the value returned is the minimum of the ticks to the
\* earliest deadline among the records that were in the table, not yet
\* expired, when the call began, and the ticks to the resume clock as the
\* call leaves it; it is never larger than the time to the nearest deadline
\* or resume that is pending after the call, equal to it when the call
\* resumed nothing, and `forever' when the table is empty and no resume is
\* pending.
C20_TimerReturnsNoLater ==
    fault = "none" =>
        \A txin \in [Procs -> TxRcs] :
            LET S == TimerRun(txin)
                before == St(txin, 0)
                ds == {TickDiff(proc[p].exp_os_ticks, now) : p \in Range(Table)}
            IN S.fault = "none" =>
                   /\ Returned(S) =
                          Least({d \in ds : d > 0}
                                \cup {ble_gattc_ticks_until_resume(S),
                                      BLE_HS_FOREVER})
                   /\ Returned(S) <= NextWake(S)
                   /\ ble_gattc_ticks_until_resume(before) # 0 =>
                          Returned(S) = NextWake(S)
                   /\ (Table = <<>> /\ ble_gattc_resume_at = 0) =>
                          Returned(S) = BLE_HS_FOREVER

\* A call of ble_gattc_timer resumes a stalled procedure and returns less
\* than the time to the nearest deadline or resume it leaves pending.
C20_Witness ==
    /\ fault = "none"
    /\ \E txin \in [Procs -> TxRcs] :
           LET S == TimerRun(txin)
           IN /\ S.fault = "none"
              /\ Len(Events(S.trace, "tx")) > 0
              /\ Returned(S) < NextWake(S)

(***************************************************************************)
(* C21                                                                     *)
(***************************************************************************)
\* Sequence s without p.
Without(s, p) == SelectSeq(s, LAMBDA q : q # p)

\* Run S took record p, and no other, out of the table, and has either put
\* it back or freed it; the other records are in the table as before.
TakesOne(S, p) ==
    /\ S.fault = "none"
    /\ Events(S.trace, "ext") = <<(<<"ext", p>>)>>
    /\ Len(EventsOf(S.trace, "ins", p)) + Len(EventsOf(S.trace, "free", p)) = 1
    /\ (p \in ListSet(S, "procs")) = (Len(EventsOf(S.trace, "ins", p)) = 1)
    /\ (p \in Range(FreeList(S))) = (Len(EventsOf(S.trace, "free", p)) = 1)
    /\ Without(ListSeq(S, "procs"), p) = Without(Table, p)

Discoveries == BLE_GATT_OP_DISC_ALL_SVCS..(BLE_GATT_OP_READ - 1)

\* Run S of ble_gattc_rx_err took record p out of the table, called the
\* application once for it with `status' and `handle', and freed it; the
\* other records are in the table as before.
FailsFirst(S, p, status, handle) ==
    LET tr == S.trace
        h == Pos(tr, "att_handle", p)
        c == Pos(tr, "cb", p)
        f == Pos(tr, "free", p)
    IN /\ S.fault = "none"
       /\ Events(tr, "ext") = <<(<<"ext", p>>)>>
       /\ Len(Events(tr, "cb")) = 1
       /\ Len(Events(tr, "free")) = 1
       /\ 0 < h /\ h < c /\ c < f
       /\ tr[c][3] = status
       /\ tr[h][3] = handle
       /\ p \in Range(FreeList(S))
       /\ ListSeq(S, "procs") = Without(Table, p)

\* C22 as stated: ble_gattc_rx_err takes the first record of the table with
\* the connection and channel of the error response, whatever its kind,
\* calls its error handler once with the ATT error and the handle of the
\* response, ATTR_NOT_FOUND on a discovery being reported as BLE_HS_EDONE,
\* and frees it; the records behind it stay in the table.
C22_ErrFailsFirstOfConn ==
    fault = "none" =>
        \A c \in Conns, status \in AttErrs, handle \in 1..MaxHandle :
            Pending(c, AllOps) =>
                LET p == FirstOf(c, AllOps)
                    done == /\ proc[p].op \in Discoveries
                            /\ status = "ATTR_NOT_FOUND"
                IN FailsFirst(RxErrRun(c, status, handle), p,
                              IF done THEN "EDONE" ELSE BLE_HS_ERR_ATT(status),
                              IF done THEN 0 ELSE handle)

\* C22, amended: ATTR_NOT_FOUND is reported as BLE_HS_EDONE, with handle 0,
\* on a discovery that is not waiting for the read of a 128-bit UUID of an
\* included service; there it is reported as the ATT error, with the handle.
C22_ErrFailsFirstOfConnScan ==
    fault = "none" =>
        \A c \in Conns, status \in AttErrs, handle \in 1..MaxHandle :
            Pending(c, AllOps) =>
                LET p == FirstOf(c, AllOps)
                    done == /\ proc[p].op \in Discoveries
                            /\ ~(/\ proc[p].op = BLE_GATT_OP_FIND_INC_SVCS
                                 /\ proc[p].cur_start # 0)
                            /\ status = "ATTR_NOT_FOUND"
                IN FailsFirst(RxErrRun(c, status, handle), p,
                              IF done THEN "EDONE" ELSE BLE_HS_ERR_ATT(status),
                              IF done THEN 0 ELSE handle)

\* The table holds two procedures of one connection, the first a long
\* read; an error response fails the first with the ATT error and the
\* handle and leaves the second in the table.
C22_Witness ==
    /\ fault = "none"
    /\ Len(Table) = 2
    /\ \E c \in Conns :
           /\ \A i \in 1..2 : proc[Table[i]].conn_handle = c
           /\ proc[Table[1]].op = BLE_GATT_OP_READ_LONG
           /\ LET S == RxErrRun(c, "INVALID_HANDLE", MaxHandle)
              IN /\ FailsFirst(S, Table[1], "ATT_INVALID_HANDLE", MaxHandle)
                 /\ ListSeq(S, "procs") = <<Table[2]>>

(***************************************************************************)
(* C23                                                                     *)
(***************************************************************************)
\* Whether record p waits for a read response: a read, a long read, or an
\* included-service scan that has asked for the 128-bit UUID of a service.
AwaitsReadRsp(p) ==
    \/ proc[p].op \in {BLE_GATT_OP_READ, BLE_GATT_OP_READ_LONG}
    \/ proc[p].op = BLE_GATT_OP_FIND_INC_SVCS /\ proc[p].cur_start # 0

\* The records of connection c that wait for a read response, in table
\* order.
ReadRspTakers(c) ==
    SelectSeq(Table, LAMBDA p : /\ proc[p].conn_handle = c
                                /\ proc[p].cid = BLE_L2CAP_CID_ATT
                                /\ AwaitsReadRsp(p))

\* C23: ble_gattc_rx_read_rsp takes the first record in table order that is
\* a read, a long read or an included-service scan with cur_start # 0; a
\* scan with cur_start = 0 is not matched by a read response.
C23_ReadRspSkipsScan ==
    fault = "none" =>
        \A c \in Conns, rsp \in ReadRsp, rc \in TxRcs, cbrc \in {0, 1} :
            Pending(c, RxReadRspOps) =>
                LET S == RxReadRspRun(c, rsp, rc, cbrc)
                    takers == ReadRspTakers(c)
                IN Events(S.trace, "ext") =
                       IF takers = <<>> THEN <<>>
                       ELSE <<(<<"ext", takers[1]>>)>>

\* What holds instead: the record taken is the first of the connection
\* whose op is in ble_gattc_rx_read_rsp_entries, and a scan with
\* cur_start = 0 that is taken ends with one BLE_HS_EBADDATA callback.
ReadRspEndsScan ==
    fault = "none" =>
        \A c \in Conns, rsp \in ReadRsp, rc \in TxRcs, cbrc \in {0, 1} :
            Pending(c, RxReadRspOps) =>
                LET S == RxReadRspRun(c, rsp, rc, cbrc)
                    p == FirstOf(c, RxReadRspOps)
                IN /\ Events(S.trace, "ext") = <<(<<"ext", p>>)>>
                   /\ ~AwaitsReadRsp(p) => EndsInBadData(S, p)

(***************************************************************************)
(* C24                                                                     *)
(***************************************************************************)
\* The included-service scan that a response of connection c with the ops
\* of a dispatch table goes to, if it waits for the 128-bit UUID of an
\* included service.
Resolving(c, ops) ==
    /\ Pending(c, ops)
    /\ proc[FirstOf(c, ops)].op = BLE_GATT_OP_FIND_INC_SVCS
    /\ proc[FirstOf(c, ops)].cur_start # 0

\* While the scan waits for a UUID, an entry of the response gives no
\* callback and leaves prev_handle alone.
EntriesIgnored ==
    \A c \in Conns, adata \in IncAdata, cbrc \in {0, 1} :
        Resolving(c, RxReadTypeOps) =>
            LET p == FirstOf(c, RxReadTypeOps)
                S == RxReadTypeAdataRun(c, adata, cbrc)
            IN /\ S.fault = "none"
               /\ Events(S.trace, "cb") = <<>>
               /\ InTable(S, p)
               /\ S.proc[p].prev_handle = proc[p].prev_handle
               /\ S.proc[p].cur_start = proc[p].cur_start

\* When the response is complete, one Read of cur_start is sent, and
\* nothing else, for a scan whose prev_handle satisfies `where'.
ReadIssued(where(_)) ==
    \A c \in Conns :
        (Resolving(c, RxReadTypeOps)
            /\ where(proc[FirstOf(c, RxReadTypeOps)].prev_handle)) =>
            LET p == FirstOf(c, RxReadTypeOps)
                S == RxReadTypeCompleteRun(c, "OK", "OK")
            IN /\ S.fault = "none"
               /\ Events(S.trace, "tx") =
                      <<(<<"tx", p, "read", "OK", FALSE,
                           <<proc[p].cur_start>>>>)>>
               /\ Events(S.trace, "cb") = <<>>
               /\ InTable(S, p)

\* The read response with a 128-bit UUID gives one data callback with the
\* handles kept in the record and the UUID; when the application returns 0
\* cur_start and cur_end are 0 again and a Read By Type request for
\* prev_handle + 1 is sent.
UuidResolved ==
    \A c \in Conns, rsp \in ReadRsp, cbrc \in {0, 1} :
        (Resolving(c, RxReadRspOps) /\ rsp.status = "OK" /\ rsp.uuid_ok) =>
            LET p == FirstOf(c, RxReadRspOps)
                S == RxReadRspRun(c, rsp, "OK", cbrc)
            IN /\ S.fault = "none"
               /\ Len(Events(S.trace, "cb")) = 1
               /\ Events(S.trace, "cb")[1][3] = "OK"
               /\ Events(S.trace, "svc") =
                      <<(<<"svc", p, <<proc[p].cur_start, proc[p].cur_end,
                                       rsp.uuid>>>>)>>
               /\ cbrc = 0 =>
                      /\ InTable(S, p)
                      /\ S.proc[p].cur_start = 0
                      /\ S.proc[p].cur_end = 0
                      /\ Events(S.trace, "tx") =
                             <<(<<"tx", p, "read_type", "OK", FALSE,
                                  <<proc[p].prev_handle + 1,
                                    proc[p].end_handle>>>>)>>

AnyHandle(h) == TRUE

BelowLastHandle(h) == h < MaxAttr

\* C24: find included services: after an include entry of 4 bytes has set
\* cur_start # 0 the other entries of the response give no callback and do
\* not move prev_handle; when the response is complete exactly one Read is
\* sent; the read response of 16 bytes gives exactly one data callback
\* with the kept start and end handles and the 128-bit UUID, sets cur_start
\* and cur_end to 0, and the scan goes on with a Read By Type request from
\* prev_handle + 1.
C24_IncludeResolvedByOneRead ==
    fault = "none" => EntriesIgnored /\ ReadIssued(AnyHandle) /\ UuidResolved

\* The same for an include entry that is not at the last handle.
IncludeResolvedBelowLastHandle ==
    fault = "none" =>
        EntriesIgnored /\ ReadIssued(BelowLastHandle) /\ UuidResolved

(***************************************************************************)
(* C25                                                                     *)
(***************************************************************************)
\* rsp is a prepare-write response for the long write p, which waits for
\* one, and echoes another handle or another offset than the request had.
EchoesOtherSlice(p, rsp) ==
    /\ proc[p].op = BLE_GATT_OP_WRITE_LONG
    /\ proc[p].offset < proc[p].om_len
    /\ rsp.status = "OK"
    /\ rsp.handle # proc[p].handle \/ rsp.offset # proc[p].offset

\* Run S called the application for record p exactly once, with
\* BLE_HS_EBADDATA, and freed p.
OneBadData(S, p) ==
    /\ S.fault = "none"
    /\ Len(Events(S.trace, "cb")) = 1
    /\ Events(S.trace, "cb")[1][2] = p
    /\ Events(S.trace, "cb")[1][3] = "EBADDATA"
    /\ Len(EventsOf(S.trace, "free", p)) = 1
    /\ p \notin ListSet(S, "procs")

\* C25: write long: when a prepare-write response echoes a handle or an
\* offset other than the expected one, an Execute Write (cancel) is sent and
\* the procedure ends with exactly one BLE_HS_EBADDATA callback.
C25_WrongSliceCancels ==
    fault = "none" =>
        \A c \in Conns, rsp \in PrepRsp :
            (/\ Pending(c, RxWriteOps)
             /\ EchoesOtherSlice(FirstOf(c, RxWriteOps), rsp)) =>
                LET p == FirstOf(c, RxWriteOps)
                    S == RxPrepWriteRspRun(c, rsp, "OK")
                IN /\ OneBadData(S, p)
                   /\ CancelThenBadData(S, p)

\* The part of C25 that holds: the procedure ends with exactly one
\* BLE_HS_EBADDATA callback; no request is sent.
WrongSliceFails ==
    fault = "none" =>
        \A c \in Conns, rsp \in PrepRsp :
            (/\ Pending(c, RxWriteOps)
             /\ EchoesOtherSlice(FirstOf(c, RxWriteOps), rsp)) =>
                LET p == FirstOf(c, RxWriteOps)
                    S == RxPrepWriteRspRun(c, rsp, "OK")
                IN OneBadData(S, p) /\ Events(S.trace, "tx") = <<>>

(***************************************************************************)
(* C26                                                                     *)
(***************************************************************************)
\* The long write p has had a prepare write accepted and has data left to
\* prepare: no Execute Write has been sent for it.
MidPrepare(p) ==
    /\ proc[p].op = BLE_GATT_OP_WRITE_LONG
    /\ proc[p].offset > 0
    /\ proc[p].offset < proc[p].om_len

\* Run S fails record p: the application is called with an error; before
\* the first such call an Execute Write (cancel) is sent for p.
CancelsBeforeFailure(S, p) ==
    LET tr == S.trace
        cbs == {i \in 1..Len(tr) : tr[i][1] = "cb" /\ tr[i][2] = p}
    IN /\ S.fault = "none"
       /\ cbs # {}
       /\ \A i \in cbs : tr[i][3] # "OK"
       /\ \E j \in 1..Len(tr) :
              /\ tr[j][1] = "tx" /\ tr[j][2] = p /\ tr[j][3] = "exec_cancel"
              /\ \A i \in cbs : j < i

\* A long write that is failed by an ATT error response after a prepare
\* write was accepted and before the Execute Write sends an Execute Write
\* (cancel) before the failure callback.
ErrResponseCancels ==
    \A c \in Conns, status \in AttErrs, handle \in 1..MaxHandle :
        (Pending(c, AllOps) /\ MidPrepare(FirstOf(c, AllOps))) =>
            CancelsBeforeFailure(RxErrRun(c, status, handle),
                                 FirstOf(c, AllOps))

\* The same for a prepare-write response that reports a failure.
FailedPrepareCancels ==
    \A c \in Conns, rsp \in PrepRsp :
        (/\ Pending(c, RxWriteOps)
         /\ MidPrepare(FirstOf(c, RxWriteOps))
         /\ rsp.status # "OK") =>
            CancelsBeforeFailure(RxPrepWriteRspRun(c, rsp, "OK"),
                                 FirstOf(c, RxWriteOps))

\* The same for a prepare-write response that is accepted and leaves data
\* to prepare, when the transport fails the next prepare write for good.
FailedFollowUpCancels ==
    \A c \in Conns, rsp \in PrepRsp :
        (/\ Pending(c, RxWriteOps)
         /\ proc[FirstOf(c, RxWriteOps)].op = BLE_GATT_OP_WRITE_LONG
         /\ rsp.status = "OK" /\ rsp.match
         /\ rsp.handle = proc[FirstOf(c, RxWriteOps)].handle
         /\ rsp.offset = proc[FirstOf(c, RxWriteOps)].offset
         /\ rsp.len = proc[FirstOf(c, RxWriteOps)].length
         /\ rsp.offset + rsp.len < proc[FirstOf(c, RxWriteOps)].om_len) =>
            CancelsBeforeFailure(RxPrepWriteRspRun(c, rsp, "ENOTCONN"),
                                 FirstOf(c, RxWriteOps))

\* C26: write long: when the procedure fails (ATT error response, failed
\* prepare response, fatal transport error on a follow-up request) after a
\* prepare write has been accepted and before the Execute Write is sent, an
\* Execute Write (cancel) is sent before the failure callback.
C26_FailureMidPrepareCancels ==
    fault = "none" =>
        ErrResponseCancels /\ FailedPrepareCancels /\ FailedFollowUpCancels

\* The part of C26 about the ATT error response.
WriteLongErrCancels == fault = "none" => ErrResponseCancels

\* A long write waits for its second prepare-write response.
WriteLongMidPrepare ==
    /\ fault = "none"
    /\ \E p \in Range(Table) : MidPrepare(p) /\ ~Stalled(proc[p])

(***************************************************************************)
(* C27                                                                     *)
(***************************************************************************)
\* The request the long write of handle h sends when its offset is off and
\* its payload has len bytes: the prepare write of the next slice, of at
\* most ChunkMax bytes, or the Execute Write (commit) when no data is left.
NextRequest(p, h, off, len) ==
    IF off < len
    THEN <<"tx", p, "prep_write", "OK", FALSE,
           <<h, off, min(ChunkMax, len - off)>>>>
    ELSE <<"tx", p, "exec_write", "OK", FALSE>>

\* rsp acknowledges the slice the long write p has sent.
Acknowledges(p, rsp) ==
    /\ proc[p].op = BLE_GATT_OP_WRITE_LONG
    /\ proc[p].offset < proc[p].om_len
    /\ rsp.status = "OK" /\ rsp.match
    /\ rsp.handle = proc[p].handle
    /\ rsp.offset = proc[p].offset
    /\ rsp.len = proc[p].length

Reliables == {p \in Range(Table) : proc[p].op = BLE_GATT_OP_WRITE_RELIABLE}

\* The slice of the attribute the reliable write rec is at.
CurSlice(rec) ==
    LET attr == rec.attrs[rec.cur_attr + 1]
    IN <<attr.handle, attr.offset, min(ChunkMax, attr.om_len - attr.offset)>>

\* The Execute Write (commit) of the reliable write p has been sent: the
\* record waits for its response.
Committed(p) ==
    proc[p].cur_attr = proc[p].num_attrs /\ ~Stalled(proc[p])

\* rsp acknowledges the slice the reliable write p has sent.
AcknowledgesAttr(p, rsp) ==
    /\ proc[p].cur_attr < proc[p].num_attrs
    /\ rsp.status = "OK" /\ rsp.match
    /\ rsp.handle = proc[p].attrs[proc[p].cur_attr + 1].handle
    /\ rsp.offset = proc[p].attrs[proc[p].cur_attr + 1].offset
    /\ rsp.len >= proc[p].length

\* The requests run S sent for the reliable write p follow its position:
\* at most one is sent; a prepare write is the slice of the attribute at
\* cur_attr, an Execute Write (commit) is sent only with
\* cur_attr = num_attrs, and nothing is sent once the commit has been.
RequestsInOrder(S, p) ==
    LET sent == SelectSeq(EventsOf(S.trace, "tx", p),
                          LAMBDA e : e[4] = "OK" /\ e[3] # "exec_cancel")
    IN /\ Len(sent) <= 1
       /\ Committed(p) => sent = <<>>
       /\ \A i \in 1..Len(sent) :
              /\ InTable(S, p)
              /\ sent[i][3] \in {"prep_write", "exec_write"}
              /\ sent[i][3] = "prep_write" =>
                     /\ S.proc[p].cur_attr < S.proc[p].num_attrs
                     /\ sent[i][6] = CurSlice(S.proc[p])
              /\ sent[i][3] = "exec_write" =>
                     S.proc[p].cur_attr = S.proc[p].num_attrs

\* Run S left the position of the reliable write p where it was.
SamePosition(S, p) ==
    InTable(S, p) =>
        /\ S.proc[p].cur_attr = proc[p].cur_attr
        /\ S.proc[p].attrs = proc[p].attrs

\* Run S, the arrival of the prepare response rsp, moved the reliable write
\* p by the slice acknowledged, and to the next attribute only when that
\* slice is the last of the attribute.
MovedBySlice(S, p, rsp) ==
    LET cur == proc[p].cur_attr
        attr == proc[p].attrs[cur + 1]
        end == attr.offset + proc[p].length
    IN InTable(S, p) =>
           /\ AcknowledgesAttr(p, rsp)
           /\ S.proc[p].num_attrs = proc[p].num_attrs
           /\ IF end >= attr.om_len
              THEN /\ S.proc[p].cur_attr = cur + 1
                   /\ S.proc[p].attrs = [proc[p].attrs EXCEPT ![cur + 1].offset = 0]
              ELSE /\ S.proc[p].cur_attr = cur
                   /\ S.proc[p].attrs = [proc[p].attrs EXCEPT ![cur + 1].offset = end]

Unprepared(p) ==
    /\ proc[p].op = BLE_GATT_OP_WRITE_LONG
    /\ proc[p].offset < proc[p].om_len

\* What holds of every Execute Write response, of either status, that finds
\* a long write with unprepared data first among the writes of its
\* connection.
EarlyExecute(P(_, _)) ==
    fault = "none" =>
        \A c \in Conns, status \in RxStatus :
            (Pending(c, RxWriteOps) /\ Unprepared(FirstOf(c, RxWriteOps))) =>
                P(RxExecWriteRspRun(c, status), FirstOf(c, RxWriteOps))

\* C29: an Execute Write response received by a long write that still has
\* unprepared data is a protocol violation: the procedure is aborted and
\* the application receives one callback, with status BadData.
C29_EarlyExecuteIsBadData == EarlyExecute(EndsInBadData)

\* Run S freed record p without a callback.
EndsSilently(S, p) ==
    /\ S.fault = "none"
    /\ Events(S.trace, "cb") = <<>>
    /\ Len(EventsOf(S.trace, "free", p)) = 1
    /\ ~InTable(S, p)

\* The code: the procedure is aborted and the application is not called.
EarlyExecuteEndsSilently == EarlyExecute(EndsSilently)

\* A long write waits for the response of a prepare write.
WriteLongUnprepared ==
    /\ fault = "none"
    /\ \E c \in Conns :
           Pending(c, RxWriteOps) /\ Unprepared(FirstOf(c, RxWriteOps))

(***************************************************************************)
(* C30                                                                     *)
(***************************************************************************)
\* The places of the trace tr where record p is put into ble_gattc_procs:
\* by ble_gattc_proc_insert or by the merge of temp_proc_list.
Insertions(tr, p) ==
    {i \in 1..Len(tr) : tr[i][1] \in {"ins", "merge"} /\ tr[i][2] = p}

\* Every record that run S puts into the table and leaves there not
\* STALLED has the deadline of the time of the run: the run stores
\* now + the timeout into exp_os_ticks before it inserts the record.
DeadlineOnInsert(S) ==
    S.fault = "none" =>
        \A p \in Procs :
            (/\ Insertions(S.trace, p) # {}
             /\ InTable(S, p)
             /\ ~Stalled(S.proc[p])) =>
                /\ S.proc[p].exp_os_ticks = TickAdd(now, TimeoutTicks)
                /\ \A i \in Insertions(S.trace, p) :
                       \E j \in 1..(i - 1) :
                           /\ S.trace[j][1] = "wr"
                           /\ S.trace[j][2] = p
                           /\ S.trace[j][3] = "exp_os_ticks"

\* C30: every record of the table that is not STALLED has a deadline equal
\* to the time of its most recent insertion plus the timeout; no record
\* that is not STALLED is in the table with an unset (zero-initialised)
\* deadline, whichever path inserted it.  Here for the build with
\* preemption protection.
C30_DeadlineOnEveryInsertion == ForRunsPP(DeadlineOnInsert)

\* The same for the build without preemption protection, where
\* ble_gattc_process_status is the only path into the table.
ProcessStatusSetsDeadline == ForRuns(DeadlineOnInsert)

\* A record is in the table, not STALLED, with the deadline 0 of
\* ble_gattc_proc_alloc: its initiator has not sent its request yet and
\* ble_gattc_extract has moved it over from temp_proc_list.
UnsetDeadlineInTable ==
    /\ fault = "none"
    /\ ini \in Range(Table)
    /\ ~Stalled(proc[ini])
    /\ proc[ini].exp_os_ticks = 0
    /\ TickAdd(now, TimeoutTicks) # 0

(***************************************************************************)
(* C31                                                                     *)
(***************************************************************************)
\* The records that got a data callback (one with status 0) in run S.
GotData(S) ==
    {p \in Procs : \E i \in 1..Len(S.trace) :
        S.trace[i][1] = "cb" /\ S.trace[i][2] = p /\ S.trace[i][3] = "OK"}

\* Run S, in which the application returns non-zero from a data callback,
\* ends every record that got one: that callback is its only one, nothing
\* is sent for it, and it is out of the table and back in the pool.
AbortsOnRefusal(S) ==
    (S.fault = "none" /\ S.cbrc # 0) =>
        \A p \in GotData(S) :
            /\ Len(EventsOf(S.trace, "cb", p)) = 1
            /\ EventsOf(S.trace, "tx", p) = <<>>
            /\ Len(EventsOf(S.trace, "free", p)) = 1
            /\ ~InTable(S, p)
            /\ p \in Range(FreeList(S))

\* C31: when a data callback of a streaming procedure returns a non-zero
\* value the procedure is aborted early: the record is removed and freed,
\* no further request is sent for it and no further data callback is
\* delivered for it.  Here for the included-service scan and the long
\* read.
C31_RefusedDataAborts == ForRunsST(AbortsOnRefusal)

\* The same for the discovery of all services.
SvcsRefusedDataAborts == ForRuns(AbortsOnRefusal)

\* A long read and an included-service scan wait for a response, and the
\* application refuses the data of the first one of them.
C31_Witness ==
    /\ fault = "none"
    /\ \E c \in Conns, rsp \in ReadRsp :
           /\ Pending(c, {BLE_GATT_OP_READ_LONG})
           /\ GotData(RxReadRspRun(c, rsp, "OK", 1)) # {}
    /\ \E c \in Conns, adata \in IncAdata :
           /\ Pending(c, {BLE_GATT_OP_FIND_INC_SVCS})
           /\ GotData(RxReadTypeAdataRun(c, adata, 1)) # {}

(***************************************************************************)
(* C32                                                                     *)
(***************************************************************************)
TxErrors == TxRcs \ {"OK"}

\* Run S of an initiator whose first request got rc, with record p: the
\* initiator returned rc, called nobody, gave p back to the pool and left
\* the table as it was.
FirstTxFailed(S, p, rc) ==
    /\ S.fault = "none"
    /\ S.rv = rc
    /\ Events(S.trace, "cb") = <<>>
    /\ Len(EventsOf(S.trace, "free", p)) = 1
    /\ p \in Range(FreeList(S))
    /\ Events(S.trace, "ins") = <<>>
    /\ ListSeq(S, "procs") = Table

\* C32: when an initiator completes without waiting for the peer because
\* its first request failed in the transport, the return code says it all:
\* the initiator returns the error, no callback is ever invoked for the
\* procedure, the record is back in the pool and the table is unchanged.
\* Here for ble_gattc_disc_all_svcs in the build with preemption
\* protection, whose record is on temp_proc_list while the request is sent.
C32_FirstTxFailureIsSilent ==
    (fault = "none" /\ ini # NULL) =>
        \A rc \in TxErrors : FirstTxFailed(DiscAllSvcsEndRun(rc), ini, rc)

\* The same without preemption protection, for the MTU exchange and the
\* discovery of all services,
FirstTxFailureIsSilent ==
    (fault = "none" /\ pool # NULL) =>
        \A c \in Conns, rc \in TxErrors :
            /\ FirstTxFailed(ExchangeMtuRun(c, rc), pool, rc)
            /\ FirstTxFailed(DiscAllSvcsRun(c, rc), pool, rc)

\* for the included-service scan and the long read,
FirstTxFailureIsSilentST ==
    (fault = "none" /\ pool # NULL) =>
        \A c \in Conns, rc \in TxErrors :
            /\ FirstTxFailed(FindIncSvcsRun(c, rc), pool, rc)
            /\ \A off \in {0, 1} : FirstTxFailed(ReadLongRun(c, off, rc), pool, rc)

\* and for the long write and the reliable write.
FirstTxFailureIsSilentWR ==
    (fault = "none" /\ pool # NULL) =>
        \A c \in Conns, rc \in TxErrors :
            /\ \A off \in {0, 1} :
                   FirstTxFailed(WriteLongRun(c, off, rc), pool, rc)
            /\ \A n \in 1..MaxWrites :
                   FirstTxFailed(WriteReliableRun(c, n, rc), pool, rc)

\* The initiator was preempted between its two halves and a sweep has
\* moved its record into the table.
PreemptedAndMerged == fault = "none" /\ ini \in Range(Table)

(***************************************************************************)
(* C33                                                                     *)
(***************************************************************************)
\* What holds of ble_gattc_connection_broken(c) and every record parked on
\* ble_gattc_cached_procs for connection c.
BrokenWithParked(P(_, _)) ==
    fault = "none" =>
        \A c \in Conns : \A p \in ParkedFor(c) : P(ConnectionBrokenRun(c), p)

\* Run S failed the parked record p with BLE_HS_ENOTCONN: one callback
\* with that status, the record off the cached list and freed.
FailedNotConnected(S, p) ==
    /\ S.fault = "none"
    /\ Len(EventsOf(S.trace, "cb", p)) = 1
    /\ EventsOf(S.trace, "cb", p)[1][3] = "ENOTCONN"
    /\ Len(EventsOf(S.trace, "free", p)) = 1
    /\ p \notin ListSet(S, "cached")

\* C33: with auto-pair replay enabled, a procedure parked on the cached
\* list awaiting security elevation is still terminated by disconnect:
\* ble_gattc_connection_broken fails it with NotConnected and no parked
\* record remains for a broken connection.
C33_BrokenFailsParked == BrokenWithParked(FailedNotConnected)

\* Run S left the parked record p where it was and called nobody for it.
StaysParked(S, p) ==
    /\ S.fault = "none"
    /\ EventsOf(S.trace, "cb", p) = <<>>
    /\ EventsOf(S.trace, "free", p) = <<>>
    /\ p \in ListSet(S, "cached")
    /\ S.proc[p] = proc[p]

\* The code: ble_gattc_connection_broken does not look at the cached list.
BrokenLeavesParked == BrokenWithParked(StaysParked)

\* A record is parked on the cached list.
SomeParked == fault = "none" /\ \E c \in Conns : ParkedFor(c) # {}

(***************************************************************************)
(* C34                                                                     *)
(***************************************************************************)
\* The callbacks of run S for record p that report an error.
ErrorCbs(S, p) ==
    SelectSeq(EventsOf(S.trace, "cb", p), LAMBDA e : e[3] # "OK")

\* Run S ended record p with n error callbacks, all of status
\* BLE_HS_ENOTCONN, and freed it once.
FailedWithCallbacks(S, p, n) ==
    /\ S.fault = "none"
    /\ Len(ErrorCbs(S, p)) = n
    /\ \A i \in 1..Len(ErrorCbs(S, p)) : ErrorCbs(S, p)[i][3] = "ENOTCONN"
    /\ Len(EventsOf(S.trace, "free", p)) = 1
    /\ p \in Range(FreeList(S))

\* rsp is the prepare response the write p waits for.
Accepted(p, rsp) ==
    IF proc[p].op = BLE_GATT_OP_WRITE_LONG THEN Acknowledges(p, rsp)
    ELSE AcknowledgesAttr(p, rsp)

\* Every accepted prepare response whose follow-up request (the next
\* Prepare Write or the Execute Write) fails with BLE_HS_ENOTCONN ends the
\* write with n error callbacks.
WriteFollowUpFails(n) ==
    fault = "none" =>
        \A c \in Conns, rsp \in PrepRsp :
            (Pending(c, RxWriteOps) /\ Accepted(FirstOf(c, RxWriteOps), rsp)) =>
                FailedWithCallbacks(RxPrepWriteRspRun(c, rsp, "ENOTCONN"),
                                    FirstOf(c, RxWriteOps), n)

\* Every read response that resolves the 128-bit UUID of an include and
\* whose follow-up scan request fails with BLE_HS_ENOTCONN ends the scan
\* with n error callbacks.
ScanFollowUpFails(n) ==
    fault = "none" =>
        \A c \in Conns, rsp \in ReadRsp :
            (Resolving(c, RxReadRspOps) /\ rsp.status = "OK" /\ rsp.uuid_ok) =>
                FailedWithCallbacks(RxReadRspRun(c, rsp, "ENOTCONN", 0),
                                    FirstOf(c, RxReadRspOps), n)

\* C34: when a follow-up request fails with a fatal transport error (not
\* OutOfMemory) right after a successful response, the application gets
\* exactly one error callback for the procedure and the record is freed
\* once.  Here for the next Prepare Write or Execute Write of a long write
\* and of a reliable write.
C34_FollowUpFailureOneCallback == WriteFollowUpFails(1)

\* The same for the next request of the included-service scan after the
\* 128-bit UUID of an include was resolved.
ScanFollowUpFailureOneCallback == ScanFollowUpFails(1)

\* The code: two error callbacks, from the resume function and from the
\* error label of the response handler.
WriteFollowUpFailureTwoCallbacks == WriteFollowUpFails(2)

ScanFollowUpFailureTwoCallbacks == ScanFollowUpFails(2)

\* A long write and a reliable write each wait for a prepare response.
BothWritesWait ==
    /\ fault = "none"
    /\ \E p \in Range(Table) : proc[p].op = BLE_GATT_OP_WRITE_LONG
    /\ \E p \in Range(Table) :
           /\ proc[p].op = BLE_GATT_OP_WRITE_RELIABLE
           /\ proc[p].cur_attr < proc[p].num_attrs

(***************************************************************************)
(* C35                                                                     *)
(***************************************************************************)
\* Run S left ble_gattc_procs with the records it had, in their order.
TableAsBefore(S) == S.fault = "none" /\ ListSeq(S, "procs") = Table

\* The first half of ble_gattc_disc_all_svcs, which appends the record to
\* temp_proc_list, leaves the table as it was.
AppendLeavesTable ==
    (fault = "none" /\ ini = NULL) =>
        \A c \in Conns : TableAsBefore(DiscAllSvcsBeginRun(c))

\* The second half with a failing request, which removes the record from
\* temp_proc_list, leaves the table as it was; no sweep has run since the
\* first half, so the record is still on temp_proc_list.
RemoveLeavesTable ==
    (/\ fault = "none"
     /\ ini \in Procs
     /\ ini \in Range(Walk(proc, lst["temp"].first, {}))) =>
        \A rc \in TxErrors : TableAsBefore(DiscAllSvcsEndRun(rc))

\* C35: with preemption protection, an initiator that appends a record to
\* the pending list, or removes it from the pending list, changes neither
\* the membership nor the order of the table, for any sequence of
\* initiations since the last sweep of the engine.
C35_PendingListLeavesTable == AppendLeavesTable /\ RemoveLeavesTable

\* A record is the tail of the table and of temp_proc_list at once: its
\* initiator has succeeded and no sweep has run since.
TailOfBoth ==
    /\ fault = "none"
    /\ ini = NULL
    /\ lst["procs"].last # NULL
    /\ lst["procs"].last = lst["temp"].last

(***************************************************************************)
(* C36                                                                     *)
(***************************************************************************)
\* The discoveries of all services of connection c, in the order of
\* ble_gattc_procs after run S; the head is the record the next entry or
\* the completion of a read-by-group-type response is dispatched to.
SvcsQueue(S, c) ==
    SelectSeq(ListSeq(S, "procs"),
              LAMBDA q : /\ S.proc[q].conn_handle = c
                         /\ S.proc[q].cid = BLE_L2CAP_CID_ATT
                         /\ S.proc[q].op = BLE_GATT_OP_DISC_ALL_SVCS)

\* What holds of every entry of a read-by-group-type response that its
\* record takes and goes on after, when n discoveries of all services are
\* in flight on the connection.
AfterEntry(n, P(_, _, _)) ==
    fault = "none" =>
        \A c \in Conns, adata \in Adata :
            LET S == RxReadGroupTypeAdataRun(c, adata, 0)
                p == FirstPending(c, BLE_GATT_OP_DISC_ALL_SVCS)
            IN (/\ Pending(c, {BLE_GATT_OP_DISC_ALL_SVCS})
                /\ Len(SvcsQueue(St(AllTx("OK"), 0), c)) \in n
                /\ S.fault = "none"
                /\ InTable(S, p)) => P(S, c, p)

\* The next entry, or the completion, of the response goes to p again.
NextGoesTo(S, c, p) == SvcsQueue(S, c)[1] = p

\* The next entry, or the completion, of the response goes to the other
\* discovery, and p is behind it.
NextGoesToOther(S, c, p) ==
    /\ SvcsQueue(S, c)[1] # p
    /\ SvcsQueue(S, c)[Len(SvcsQueue(S, c))] = p

\* C36: all attribute-data entries of one ATT response, and its completion
\* event, are delivered to the same record, even when several records of
\* the same kind are in flight on that connection and CID and the record is
\* re-inserted at the tail of the table after each entry.
C36_ResponseStaysWithRecord == AfterEntry(1..MAX_PROCS, NextGoesTo)

\* With one discovery in flight on the connection the response stays with
\* it.
LoneResponseStaysWithRecord == AfterEntry({1}, NextGoesTo)

\* The code, with two in flight: the entries alternate between them.
ResponseAlternates == AfterEntry({2}, NextGoesToOther)

\* Two discoveries of all services are in flight on one connection.
TwoSvcsOnOneConn ==
    /\ fault = "none"
    /\ \E c \in Conns : Len(SvcsQueue(St(AllTx("OK"), 0), c)) = 2

(***************************************************************************)
(* C37                                                                     *)
(***************************************************************************)
\* The resume time a stall at time t arms: t + the resume rate, and 1 when
\* that sum wraps to 0.
ArmedAt(t) ==
    IF TickAdd(t, ResumeTicks) = 0 THEN 1 ELSE TickAdd(t, ResumeTicks)

\* Run S leaves the resume time armed when it leaves a STALLED record in
\* the table, and a resume time it sets is the one of the time of the run.
KeepsArmed(S) ==
    S.fault = "none" =>
        /\ (\E p \in ListSet(S, "procs") : Stalled(S.proc[p])) =>
               S.ble_gattc_resume_at # 0
        /\ S.ble_gattc_resume_at \in {0, ble_gattc_resume_at, ArmedAt(now)}

\* The resume time is armed when the table holds a STALLED record.
StalledImpliesArmed ==
    fault = "none" =>
        ((\E p \in Range(Table) : Stalled(proc[p])) =>
             ble_gattc_resume_at # 0)

\* C37: whenever the table holds a record with STALLED set the resume time
\* is armed (ble_gattc_resume_at # 0), so that a later run of the timer
\* reaches it; 0 only ever means `not armed', also when now + the resume
\* rate wraps to 0.  Here for the build with preemption protection.
C37_StalledImpliesArmed == StalledImpliesArmed /\ ForRunsPP(KeepsArmed)

\* The same without preemption protection.
StalledImpliesArmedNoPP == StalledImpliesArmed /\ ForRuns(KeepsArmed)

\* A STALLED record is in the table while its initiator has not returned
\* yet: a sweep has moved it there and a response has stalled it.
StalledBeforeStarted ==
    /\ fault = "none"
    /\ ini \in Range(Table)
    /\ Stalled(proc[ini])

\* A record has stalled at the tick where now + the resume rate wraps to
\* 0, and the resume time is 1.
WrappedArming ==
    /\ fault = "none"
    /\ TickAdd(now, ResumeTicks) = 0
    /\ ble_gattc_resume_at = 1
    /\ \E p \in Range(Table) : Stalled(proc[p])

(***************************************************************************)
(* C38                                                                     *)
(***************************************************************************)
\* The records that ble_gattc_procs, temp_proc_list or
\* ble_gattc_cached_procs links.
Linked ==
    Range(Table) \cup Range(Walk(proc, lst["temp"].first, {}))
        \cup Range(Cached)

\* The blocks of the pool's free list.
InPool == Range(Walk(proc, pool, {}))

\* No freed record is linked by a list.
NoFreedLinked == fault = "none" => Linked \cap InPool = {}

\* Every record is in the pool or linked by a list.
NoneMissing == fault = "none" => Linked \cup InPool = Procs

\* C38: after every operation of the engine returns, every record taken
\* from the pool and not yet freed is reachable from the table, the pending
\* list or the cached list, and no freed record is reachable from any of
\* them; when no procedure is in flight the pool is full again.
C38_RecordConservation ==
    /\ NoneMissing
    /\ NoFreedLinked
    /\ (fault = "none" /\ Linked = {}) => InPool = Procs

\* A record is in no list and not in the pool.
RecordMissing == fault = "none" /\ Linked \cup InPool # Procs

(***************************************************************************)
(* C39                                                                     *)
(***************************************************************************)
\* The requests of a discovery over a handle range that run S emits: the
\* Read By Type and Find Information requests the ATT client accepted.
RangeRequests(S) ==
    SelectSeq(S.trace, LAMBDA e : /\ e[1] = "tx"
                                  /\ e[3] \in {"read_type", "find_info"}
                                  /\ e[4] = "OK")

\* Request e of run S starts at prev_handle + 1 of its record, the sum not
\* wrapped, and the start handle lies in 1 .. end_handle of the record.
\* (An accepted request leaves its record in the table with the fields the
\* request was built from.)
InRange(S, e) ==
    LET rec == S.proc[e[2]]
    IN /\ e[6][1] = rec.prev_handle + 1
       /\ 1 <= e[6][1]
       /\ e[6][1] <= rec.end_handle
       /\ e[6][2] = rec.end_handle

RequestsInRange(S) ==
    \A i \in 1..Len(RangeRequests(S)) : InRange(S, RangeRequests(S)[i])

\* The same for the requests built while prev_handle is below end_handle.
RequestsInRangeBelowEnd(S) ==
    \A i \in 1..Len(RangeRequests(S)) :
        LET e == RangeRequests(S)[i]
        IN S.proc[e[2]].prev_handle < S.proc[e[2]].end_handle =>
               InRange(S, e)

\* C39: every request that a discovery of characteristics or of
\* descriptors, started with 1 <= start <= end, emits has the start handle
\* prev_handle + 1, taken in 16 bits without wrapping, and that start handle
\* is at least 1 and at most the end handle of the procedure, whatever
\* handles the peer reports.
C39_RequestsStayInRange == ForRunsDC(RequestsInRange)

\* The first request of a discovery of characteristics is in range.
FirstChrsRequestInRange ==
    fault = "none" =>
        \A c \in Conns, r \in HandleRanges :
            RequestsInRange(DiscAllChrsRun(c, r[1], r[2], "OK"))

\* Every follow-up request of a discovery of characteristics is in range.
ChrsFollowUpsInRange ==
    fault = "none" =>
        \A c \in Conns :
            Pending(c, RxReadTypeOps) =>
                RequestsInRange(RxReadTypeCompleteRun(c, "OK", "OK"))

\* Every request built while prev_handle is below end_handle is in range.
RequestsInRangeWhileBelowEnd == ForRunsDC(RequestsInRangeBelowEnd)

\* A discovery waits in the table with prev_handle beyond its end handle, at
\* the last handle there is: its next request starts at a wrapped handle.
PastEnd ==
    \E p \in Range(Table) :
        /\ proc[p].op \in {BLE_GATT_OP_DISC_ALL_CHRS,
                           BLE_GATT_OP_DISC_ALL_DSCS}
        /\ proc[p].prev_handle > proc[p].end_handle
        /\ proc[p].prev_handle = MaxHandle

(***************************************************************************)
(* C40                                                                     *)
(***************************************************************************)
\* Run S did nothing but look: it ended without a fault, its events are the
\* entry and the host lock around the search of the table, and the records,
\* the lists and the pool are as they were.
Ignored(S) ==
    /\ S.fault = "none"
    /\ \A i \in 1..Len(S.trace) : S.trace[i][1] \in {"call", "lock", "unlock"}
    /\ S.proc = proc
    /\ \A l \in ListNames \ {"dst"} : S.lst[l] = lst[l]
    /\ S.lst["dst"] = EmptyList
    /\ S.pool = pool

\* C40: an ATT error response on a connection and channel for which the
\* table holds no record is ignored, also in the build with auto-pair: no
\* record is taken or written, no callback is called and the table stays
\* as it is.
C40_UnmatchedErrIgnored ==
    fault = "none" =>
        \A c \in Conns, status \in AttCodes, handle \in 1..MaxHandle,
           enc \in BOOLEAN, sec_rc \in {0, 1} :
            ~Pending(c, AllOps) =>
                Ignored(RxErrAutoPairRun(c, status, handle, enc, sec_rc))

\* The same of ble_gattc_rx_err as built without BLE_GATTC_AUTO_PAIR.
UnmatchedErrIgnoredNoAutoPair ==
    fault = "none" =>
        \A c \in Conns, status \in AttErrs, handle \in 1..MaxHandle :
            ~Pending(c, AllOps) => Ignored(RxErrRun(c, status, handle))

\* The table holds a record of one connection and none of another.
OneConnWaits ==
    /\ fault = "none"
    /\ \E c, d \in Conns : Pending(c, AllOps) /\ ~Pending(d, AllOps)

\* In the build with auto-pair the error response without a record ends in
\* a write through a null pointer.
UnmatchedErrFaults ==
    /\ fault = "none"
    /\ \E c \in Conns :
           /\ ~Pending(c, AllOps)
           /\ RxErrAutoPairRun(c, "INVALID_HANDLE", 1, TRUE, 0).fault
                  = "null_deref"

====
